---- MODULE Spec2Model ----
(***************************************************************************)
(* A model of PowerDNS/simpleblob: the S3 list cache with its update       *)
(* marker, the filesystem backend's temp-file writes, and the streaming    *)
(* writers.  Names and payloads are sequences of characters / bytes so     *)
(* that prefix and suffix tests are computed, not assumed.                 *)
(***************************************************************************)
EXTENDS Integers, Sequences, FiniteSets, TLC

\* ------------------------------------------------------------------------
\* Bounds
\* ------------------------------------------------------------------------
\* Number of calls (List, Store, Delete) started in one run of the S3 model.
MaxCalls == 3

\* ------------------------------------------------------------------------
\* Strings
\* ------------------------------------------------------------------------
\* Characters in byte order (only the ones used by the model).
Alphabet == <<"-", ".", "/", "0", "1", "2", "a", "b", "c", "d", "e", "k", "m", "p", "r", "t", "u">>

Ord(c) == CHOOSE i \in 1..Len(Alphabet) : Alphabet[i] = c

Min2(x, y) == IF x < y THEN x ELSE y

\* strings.HasPrefix
HasPrefix(s, pre) ==
    /\ Len(pre) <= Len(s)
    /\ SubSeq(s, 1, Len(pre)) = pre

\* strings.HasSuffix
HasSuffix(s, suf) ==
    /\ Len(suf) <= Len(s)
    /\ SubSeq(s, Len(s) - Len(suf) + 1, Len(s)) = suf

\* Go's string comparison s < t (byte-wise, shorter prefix first).
StrLess(s, t) ==
    \/ /\ Len(s) < Len(t)
       /\ SubSeq(t, 1, Len(s)) = s
    \/ \E i \in 1..Min2(Len(s), Len(t)) :
          /\ SubSeq(s, 1, i - 1) = SubSeq(t, 1, i - 1)
          /\ Ord(s[i]) < Ord(t[i])

\* ------------------------------------------------------------------------
\* S3 backend: bucket, marker, list cache
\* ------------------------------------------------------------------------
UpdateMarkerFilename ==
    <<"u", "p", "d", "a", "t", "e", "-", "m", "a", "r", "k", "e", "r">>

\* time.Duration of the forced refresh, in clock units.
UpdateMarkerForceListInterval == 1

\* Options.GlobalPrefix
GlobalPrefix == <<>>

prependGlobalPrefix(name) == GlobalPrefix \o name

\* Backend.markerName as set by setGlobalPrefix
markerName == prependGlobalPrefix(UpdateMarkerFilename)

BlobNames == {<<"a">>}
Prefixes == {<<>>}
Payloads == {<<1>>, <<2, 3>>}

Instances == {1, 2}
Procs == {1, 2, 3}
\* Goroutines 1 and 2 call into instance 1, goroutine 3 into instance 2.
Inst(p) == IF p = 3 THEN 2 ELSE 1
\* Goroutine 2 only lists; the others list, store and delete.
Mutators == {1, 3}

\* A bucket slot holds <<>> (no object) or <<content>>.
NoObj == <<>>
Obj(content) == <<content>>
Absent == -1
ErrNotExist == "ErrNotExist"
ErrTransport == "ErrTransport"

Keys == {prependGlobalPrefix(n) : n \in BlobNames} \cup {UpdateMarkerFilename, markerName}

\* minio UploadInfo.ETag: a digest of the content.
ETag(data) == <<"md5", data>>

MarkerBytesNoTime(name, etag, nanos, isDel) ==
    [name |-> name, etag |-> etag, nanos |-> 0, isDel |-> isDel]

\* fmt.Sprintf("%s\x00%s\x00%d\x00%v", name, etag, nanos, isDel): the four
\* fields determine the bytes and the bytes determine the fields.
MarkerBytes(name, etag, nanos, isDel) ==
    [name |-> name, etag |-> etag, nanos |-> nanos, isDel |-> isDel]

\* string(m) of a marker that was not found: the empty string.
EmptyMarker == [name |-> <<>>, etag |-> <<>>, nanos |-> 0 - 1, isDel |-> FALSE]

VARIABLES
    bucket,      \* key -> <<>> or <<content>> (the S3 bucket)
    useMarker,   \* Options.UseUpdateMarker
    lastMarker,  \* instance -> Backend.lastMarker
    lastList,    \* instance -> Backend.lastList (<<>> is Go's nil slice)
    age,         \* instance -> time.Since(Backend.lastTime), capped at the interval
    nanos,       \* the next reading of time.Now().UnixNano()
    th,          \* goroutine -> its call in progress (position and locals)
    calls,       \* number of calls started so far
    lastPut,     \* history: name -> who wrote it last, and whether that call returned nil
    due          \* history: goroutine -> name -> instance whose finished write its List must show

cacheVars == <<bucket, useMarker, lastMarker, lastList, age, nanos, th, calls, lastPut, due>>

\* The filesystem backend's directory and the goroutines working on it.
VARIABLES
    fdir,    \* path -> inode number, 0 when the directory has no such entry
    fino,    \* inode number -> file content
    fnext,   \* next unused inode number
    fpid,    \* writer -> os.Getpid() of its process
    fw,      \* writer -> position and locals of its Store or NewWriter/Write/Close
    fld,     \* the goroutine calling Load
    fls,     \* the goroutine calling List
    prior    \* history: the object under FsDest before any writer ran

fsVars == <<fdir, fino, fnext, fpid, fw, fld, fls, prior>>

\* A streaming writer, its upload goroutine and the goroutine that uses it.
VARIABLES
    wkind,       \* which NewWriter made the writer
    sUseMarker,  \* Options.UseUpdateMarker of the backend behind it
    sblob,       \* the object stored under the writer's name
    smark,       \* update markers written so far
    sputs,       \* Store calls and uploads started so far
    sctx,        \* TRUE once the writer's context is cancelled
    wrap,        \* the writer: fallbackWriter or writerWrapper fields, and its pipe
    upload,      \* the goroutine running doStoreReader on the pipe's read end
    caller,      \* the goroutine calling Write and Close
    seen         \* history: what the caller's calls returned

streamVars == <<wkind, sUseMarker, sblob, smark, sputs, sctx, wrap, upload, caller, seen>>

\* One backend behind simpleblob.Interface and the goroutine that calls it.
VARIABLES
    kb,      \* which backend: "memory", "fs", "s3" or "azure"
    kmark,   \* Options.UseUpdateMarker (S3 and Azure)
    kstore,  \* key -> the byte slice (a heap cell) stored under it, 0 when absent
    kmarker, \* version of the update-marker object in the store, 0 when absent
    kcache,  \* Backend.lastMarker and Backend.lastList (<<>> is nil)
    kheap,   \* heap cell -> the bytes of that byte slice
    knext,   \* next unused heap cell
    kgot,    \* the byte slice the last Load returned, 0 when none
    kres,    \* what the last call returned
    klast,   \* history: name -> value by the calls that returned nil
    keff,    \* history: name -> value by the calls whose blob write took effect
    kops     \* calls made so far

kvVars == <<kb, kmark, kstore, kmarker, kcache, kheap, knext, kgot, kres, klast, keff, kops>>

\* A caller of the name check.
VARIABLES
    nname,     \* the string it passes
    nerr,      \* what CheckName returned, "none" before the call
    nallowed   \* <<what AllowedName returned>>, <<>> before the call

nameVars == <<nname, nerr, nallowed>>

\* The backend registry of plugins.go.
VARIABLES
    backends,  \* typeName -> the registered InitFunc, 0 when none
    regHist,   \* history: the registrations made, in order
    regRes,    \* what the last GetBackend did and returned
    regOps     \* calls made so far

regVars == <<backends, regHist, regRes, regOps>>

\* An S3 backend with a configured global prefix, one caller.
VARIABLES
    pgp,  \* Options.GlobalPrefix
    pmarkerName,  \* Backend.markerName
    pobj,  \* key -> version of the object stored under it, 0 when absent
    pcache,  \* Backend.lastMarker and Backend.lastList (<<>> is nil)
    pwrote,  \* history: <<the key the last setMarker wrote>>
    pread,  \* history: <<the key the last List read the marker from>>
    pskip,  \* history: <<the key the last enumeration left out>>
    pres,  \* the last call and what it returned
    pops  \* calls made so far

prefixVars == <<pgp, pmarkerName, pobj, pcache, pwrote, pread, pskip, pres, pops>>

\* The lock of one S3 backend instance and the goroutines calling into it.
VARIABLES
    mu,  \* Backend.mu: the goroutine holding it, 0 when unlocked
    lth,  \* goroutine -> the call it runs and its position in it
    lcached,  \* Backend.lastList is not nil
    lcalls  \* calls started so far

lockVars == <<mu, lth, lcached, lcalls>>

\* The earlier S3 backend whose Store and Delete patch the cached list, one caller.
VARIABLES
    qobj,  \* name -> size of the object stored under it, 0 when absent
    qmark,  \* <<content of the update-marker object>>, <<>> when absent
    qlist,  \* Backend.lastList (<<>> is nil)
    qlastMarker,  \* Backend.lastMarker (<<>> is the empty string)
    qfilled,  \* history: a List has enumerated into the cache
    qres,  \* the last call and what it returned
    qops  \* calls made so far

patchVars == <<qobj, qmark, qlist, qlastMarker, qfilled, qres, qops>>

\* A blob store wrapped by AsFS and one fs.File opened through the wrapper
VARIABLES
    ablob,  \* the content stored under the name, NoBlob when it is absent
    afile,  \* the fsBlobWrapper: open flag and its reader r (bytes and cursor) or NoReader
    ahist,  \* history of the open file: bytes of the first Load, bytes read before the first EOF, whether EOF was returned, bytes read after it
    ares,  \* what the last call returned
    aops  \* number of calls made

asfsVars == <<ablob, afile, ahist, ares, aops>>

vars == <<cacheVars, fsVars, streamVars, kvVars, nameVars, regVars, prefixVars, lockVars, patchVars, asfsVars>>

\* A subsystem that takes no part in a specification stays at rest.
CacheAtRest ==
    /\ bucket = <<>> /\ useMarker = FALSE /\ lastMarker = <<>> /\ lastList = <<>>
    /\ age = <<>> /\ nanos = 0 /\ th = <<>> /\ calls = 0 /\ lastPut = <<>> /\ due = <<>>

StreamAtRest ==
    /\ wkind = "" /\ sUseMarker = FALSE /\ sblob = <<>> /\ smark = 0 /\ sputs = 0
    /\ sctx = FALSE /\ wrap = <<>> /\ upload = <<>> /\ caller = <<>> /\ seen = <<>>

RegAtRest == backends = <<>> /\ regHist = <<>> /\ regRes = <<>> /\ regOps = 0

AsFSAtRest ==
    /\ ablob = <<>> /\ afile = <<>> /\ ahist = <<>> /\ ares = <<>> /\ aops = 0

PatchAtRest ==
    /\ qobj = <<>> /\ qmark = <<>> /\ qlist = <<>> /\ qlastMarker = <<>>
    /\ qfilled = FALSE /\ qres = <<>> /\ qops = 0

LockAtRest == mu = 0 /\ lth = <<>> /\ lcached = FALSE /\ lcalls = 0

PrefixAtRest ==
    /\ pgp = <<>> /\ pmarkerName = <<>> /\ pobj = <<>> /\ pcache = <<>>
    /\ pwrote = <<>> /\ pread = <<>> /\ pskip = <<>> /\ pres = <<>> /\ pops = 0

NameAtRest == nname = <<>> /\ nerr = "none" /\ nallowed = <<>>

KvAtRest ==
    /\ kb = "" /\ kmark = FALSE /\ kstore = <<>> /\ kmarker = 0 /\ kcache = <<>> /\ kheap = <<>>
    /\ knext = 0 /\ kgot = 0 /\ kres = <<>> /\ klast = <<>> /\ keff = <<>> /\ kops = 0

FsAtRest ==
    /\ fdir = <<>> /\ fino = <<>> /\ fnext = 0 /\ fpid = <<>> /\ fw = <<>>
    /\ fld = <<>> /\ fls = <<>> /\ prior = <<>>

Idle == [pc |-> "idle", op |-> "none", name |-> <<>>, data |-> <<>>,
         prefix |-> <<>>, um |-> EmptyMarker, exists |-> FALSE,
         blobs |-> <<>>, mk |-> EmptyMarker, isDel |-> FALSE,
         res |-> "none", list |-> <<>>, why |-> "none",
         solo |-> FALSE, warm |-> FALSE]

\* History: no other call on any instance is between its start and its return.
Quiet(p) == \A q \in Procs \ {p} : th[q].pc \in {"idle", "ret"}

\* History: goroutine p starts a call with the record rec; no call that has
\* started before it ran alone.
Begin(p, rec) ==
    [q \in Procs |-> IF q = p THEN rec ELSE [th[q] EXCEPT !.solo = FALSE]]

\* The size List reports for an object, Absent when there is none.
SizeOf(obj) == IF obj = NoObj THEN Absent ELSE Len(obj[1])

RECURSIVE SortNames(_)
\* sort.Sort over the names of a listing.
SortNames(S) ==
    IF S = {} THEN <<>>
    ELSE LET m == CHOOSE x \in S : \A y \in S \ {x} : StrLess(x, y)
         IN <<m>> \o SortNames(S \ {m})

\* Backend.doList: every object under prefix except the marker, with the
\* global prefix stripped, sorted by name.
doList(bkt, prefix) ==
    LET keys == {k \in Keys : /\ bkt[k] # NoObj
                              /\ HasPrefix(k, prefix)
                              /\ k # markerName}
        names == SortNames(keys)
    IN [i \in 1..Len(names) |->
          [Name |-> SubSeq(names[i], Len(GlobalPrefix) + 1, Len(names[i])),
           Size |-> Len(bkt[names[i]][1])]]

\* BlobList.WithPrefix
WithPrefix(bl, prefix) == SelectSeq(bl, LAMBDA b : HasPrefix(b.Name, prefix))

\* The size a listing reports for name, Absent when it has no such entry.
SizeIn(bl, name) ==
    IF \E i \in 1..Len(bl) : bl[i].Name = name
    THEN bl[CHOOSE i \in 1..Len(bl) : bl[i].Name = name].Size
    ELSE Absent

MustUpdateNoInterval(i, upstreamMarker, exists) ==
    \/ lastList[i] = <<>>
    \/ upstreamMarker # lastMarker[i]
    \/ ~exists

MustUpdateNoMarkerCompare(i, upstreamMarker, exists) ==
    \/ lastList[i] = <<>>
    \/ age[i] >= UpdateMarkerForceListInterval
    \/ ~exists

MustUpdateIfMarkerExpected(i, upstreamMarker, exists) ==
    \/ lastList[i] = <<>>
    \/ upstreamMarker # lastMarker[i]
    \/ age[i] >= UpdateMarkerForceListInterval
    \/ ~exists /\ lastMarker[i] # EmptyMarker

\* Backend.List: the refresh decision taken under the lock.
MustUpdate(i, upstreamMarker, exists) ==
    \/ lastList[i] = <<>>
    \/ upstreamMarker # lastMarker[i]
    \/ age[i] >= UpdateMarkerForceListInterval
    \/ ~exists

\* Why a refresh happens (history only; read by the witnesses).
Reason(i, upstreamMarker, exists) ==
    IF lastList[i] = <<>> THEN "cold"
    ELSE IF ~exists THEN "nomarker"
    ELSE IF age[i] >= UpdateMarkerForceListInterval THEN "interval"
    ELSE IF upstreamMarker # lastMarker[i] THEN "marker"
    ELSE "cached"

ListAfterSetMarkerKept(old) == old

\* Backend.setMarker: the cached list after the marker was written.
ListAfterSetMarker(old) == <<>>

NoDue == [n \in BlobNames |-> 0]

\* A bucket left behind by an earlier process: one blob, and the marker its
\* Store wrote when caching is enabled.
UsedBucket(marked) ==
    LET n == CHOOSE x \in BlobNames : TRUE
        d == CHOOSE x \in Payloads : Len(x) = 1
    IN [k \in Keys |->
          IF k = prependGlobalPrefix(n) THEN Obj(d)
          ELSE IF k = UpdateMarkerFilename /\ marked
               THEN Obj(MarkerBytes(prependGlobalPrefix(n), ETag(d), 0 - 2, FALSE))
               ELSE NoObj]

CacheInit ==
    /\ useMarker \in BOOLEAN
    /\ bucket \in {[k \in Keys |-> NoObj], UsedBucket(useMarker)}
    /\ lastMarker = [i \in Instances |-> EmptyMarker]
    /\ lastList = [i \in Instances |-> <<>>]
    /\ age = [i \in Instances |-> UpdateMarkerForceListInterval]
    /\ nanos = 0
    /\ th = [p \in Procs |-> Idle]
    /\ calls = 0
    /\ lastPut = [n \in BlobNames |-> [by |-> 0, done |-> FALSE]]
    /\ due = [p \in Procs |-> NoDue]
    /\ FsAtRest
    /\ StreamAtRest
    /\ KvAtRest
    /\ NameAtRest
    /\ RegAtRest
    /\ PrefixAtRest
    /\ LockAtRest
    /\ PatchAtRest
    /\ AsFSAtRest

\* History: goroutine p wrote or removed the object of name n.  A List in
\* progress is no longer bound to report the value it started from.
NotePut(p, n, returned) ==
    /\ lastPut' = [lastPut EXCEPT ![n] = [by |-> p, done |-> returned]]
    /\ due' = [q \in Procs |-> [due[q] EXCEPT ![n] = 0]]

\* History: the instance whose finished write of name n is the latest one.
Settled(n) == IF lastPut[n].done THEN Inst(lastPut[n].by) ELSE 0

\* Backend.List up to the marker read (or the whole call without caching).
ListStart(p) ==
    \E prefix \in Prefixes :
    /\ th[p].pc = "idle"
    /\ calls < MaxCalls
    /\ calls' = calls + 1
    /\ LET base == [Idle EXCEPT !.op = "list", !.prefix = prefix]
       IN IF ~useMarker
          THEN \/ th' = Begin(p,
                          [base EXCEPT !.pc = "ret", !.res = "ok", !.why = "direct",
                                       !.list = doList(bucket, prependGlobalPrefix(prefix))])
               \/ th' = Begin(p, [base EXCEPT !.pc = "ret", !.res = ErrTransport])
          ELSE \/ th' = Begin(p,
                          [base EXCEPT !.pc = "list_check",
                                       !.exists = (bucket[markerName] # NoObj),
                                       !.um = IF bucket[markerName] = NoObj
                                              THEN EmptyMarker ELSE bucket[markerName][1]])
               \/ th' = Begin(p, [base EXCEPT !.pc = "ret", !.res = ErrTransport])
    /\ due' = [due EXCEPT ![p] = [n \in BlobNames |-> Settled(n)]]
    /\ UNCHANGED <<bucket, useMarker, lastMarker, lastList, age, nanos, lastPut>>

\* Backend.List: the first critical section.
ListCheck(p) ==
    /\ th[p].pc = "list_check"
    /\ LET i == Inst(p)
           why == Reason(i, th[p].um, th[p].exists)
       IN IF MustUpdate(i, th[p].um, th[p].exists)
          THEN th' = [th EXCEPT ![p].pc = "list_enum", ![p].why = why]
          ELSE th' = [th EXCEPT ![p] =
                          [Idle EXCEPT !.pc = "ret", !.op = "list", !.res = "ok",
                                       !.why = "cached", !.prefix = th[p].prefix,
                                       !.list = WithPrefix(lastList[i], th[p].prefix)]]
    /\ UNCHANGED <<calls, bucket, useMarker, lastMarker, lastList, age, nanos, lastPut, due>>

\* Backend.List: the full enumeration, outside the lock.
ListEnum(p) ==
    /\ th[p].pc = "list_enum"
    /\ \/ th' = [th EXCEPT ![p].pc = "list_swap", ![p].blobs = doList(bucket, GlobalPrefix)]
       \/ th' = [th EXCEPT ![p] = [Idle EXCEPT !.pc = "ret", !.op = "list",
                                                !.res = ErrTransport]]
    /\ UNCHANGED <<calls, bucket, useMarker, lastMarker, lastList, age, nanos, lastPut, due>>

\* Backend.List: the second critical section and the return.
ListSwap(p) ==
    /\ th[p].pc = "list_swap"
    /\ lastMarker' = [lastMarker EXCEPT ![Inst(p)] = th[p].um]
    /\ lastList' = [lastList EXCEPT ![Inst(p)] = th[p].blobs]
    /\ age' = [age EXCEPT ![Inst(p)] = 0]
    /\ th' = [th EXCEPT ![p] =
                [Idle EXCEPT !.pc = "ret", !.op = "list", !.res = "ok",
                             !.why = th[p].why, !.prefix = th[p].prefix,
                             !.list = WithPrefix(th[p].blobs, th[p].prefix)]]
    /\ UNCHANGED <<calls, bucket, useMarker, nanos, lastPut, due>>

StoreStartAlwaysMarks(p) ==
    \E n \in BlobNames, d \in Payloads :
    /\ th[p].pc = "idle"
    /\ calls < MaxCalls
    /\ calls' = calls + 1
    /\ LET base == [Idle EXCEPT !.op = "store", !.name = prependGlobalPrefix(n), !.data = d]
       IN \/ /\ bucket' = [bucket EXCEPT ![prependGlobalPrefix(n)] = Obj(d)]
             /\ NotePut(p, n, ~useMarker)
             /\ th' = Begin(p, [base EXCEPT !.pc = "marker_time", !.solo = Quiet(p)])
          \/ /\ th' = Begin(p, [base EXCEPT !.pc = "ret", !.res = ErrTransport])
             /\ UNCHANGED <<bucket, lastPut, due>>
    /\ UNCHANGED <<useMarker, lastMarker, lastList, age, nanos>>

\* Backend.Store up to the return of doStore for the blob.
StoreStart(p) ==
    \E n \in BlobNames, d \in Payloads :
    /\ th[p].pc = "idle"
    /\ calls < MaxCalls
    /\ calls' = calls + 1
    /\ LET base == [Idle EXCEPT !.op = "store", !.name = prependGlobalPrefix(n), !.data = d]
       IN \/ /\ bucket' = [bucket EXCEPT ![prependGlobalPrefix(n)] = Obj(d)]
             /\ NotePut(p, n, ~useMarker)
             /\ th' = Begin(p,
                         IF useMarker THEN [base EXCEPT !.pc = "marker_time", !.solo = Quiet(p)]
                                      ELSE [base EXCEPT !.pc = "ret", !.res = "ok"])
          \/ /\ th' = Begin(p, [base EXCEPT !.pc = "ret", !.res = ErrTransport])
             /\ UNCHANGED <<bucket, lastPut, due>>
    /\ UNCHANGED <<useMarker, lastMarker, lastList, age, nanos>>

\* Backend.Delete up to the return of doDelete.
DeleteStart(p) ==
    \E n \in BlobNames :
    /\ th[p].pc = "idle"
    /\ calls < MaxCalls
    /\ calls' = calls + 1
    /\ LET base == [Idle EXCEPT !.op = "delete", !.name = prependGlobalPrefix(n),
                                !.isDel = TRUE]
       IN \/ /\ bucket' = [bucket EXCEPT ![prependGlobalPrefix(n)] = NoObj]
             /\ NotePut(p, n, ~useMarker)
             /\ th' = Begin(p,
                         IF useMarker THEN [base EXCEPT !.pc = "marker_time", !.solo = Quiet(p)]
                                      ELSE [base EXCEPT !.pc = "ret", !.res = "ok"])
          \/ /\ th' = Begin(p, [base EXCEPT !.pc = "ret", !.res = ErrTransport])
             /\ UNCHANGED <<bucket, lastPut, due>>
    /\ UNCHANGED <<useMarker, lastMarker, lastList, age, nanos>>

\* Backend.setMarker: reading the clock and formatting the marker.  No two
\* readings of the nanosecond clock agree.
SetMarkerTime(p) ==
    /\ th[p].pc = "marker_time"
    /\ nanos' = nanos + 1
    /\ th' = [th EXCEPT ![p].pc = "marker_put",
                        ![p].mk = MarkerBytes(th[p].name,
                                              IF th[p].isDel THEN <<>> ELSE ETag(th[p].data),
                                              nanos, th[p].isDel)]
    /\ UNCHANGED <<calls, bucket, useMarker, lastMarker, lastList, age, lastPut, due>>

\* Backend.setMarker: doStore of the marker object.
SetMarkerPut(p) ==
    /\ th[p].pc = "marker_put"
    /\ \/ /\ bucket' = [bucket EXCEPT ![UpdateMarkerFilename] = Obj(th[p].mk)]
          /\ th' = [th EXCEPT ![p].pc = "marker_lock"]
       \/ /\ th' = [th EXCEPT ![p] = [Idle EXCEPT !.pc = "ret", !.op = th[p].op,
                                                   !.name = th[p].name,
                                                   !.res = ErrTransport]]
          /\ UNCHANGED bucket
    /\ UNCHANGED <<calls, useMarker, lastMarker, lastList, age, nanos, lastPut, due>>

\* Backend.setMarker: the critical section, and the return of Store/Delete.
SetMarkerLock(p) ==
    /\ th[p].pc = "marker_lock"
    /\ lastList' = [lastList EXCEPT ![Inst(p)] = ListAfterSetMarker(@)]
    /\ lastMarker' = [lastMarker EXCEPT ![Inst(p)] = th[p].mk]
    /\ th' = [th EXCEPT ![p] = [Idle EXCEPT !.pc = "ret", !.op = th[p].op,
                                             !.name = th[p].name, !.res = "ok",
                                             !.solo = th[p].solo,
                                             !.warm = (lastList[Inst(p)] # <<>>)]]
    /\ LET n == SubSeq(th[p].name, Len(GlobalPrefix) + 1, Len(th[p].name))
       IN lastPut' = IF lastPut[n].by = p
                     THEN [lastPut EXCEPT ![n].done = TRUE]
                     ELSE lastPut
    /\ UNCHANGED <<calls, bucket, useMarker, age, nanos, due>>

\* The caller takes the result; the goroutine is free for the next call.
Return(p) ==
    /\ th[p].pc = "ret"
    /\ th' = [th EXCEPT ![p] = Idle]
    /\ due' = [due EXCEPT ![p] = NoDue]
    /\ UNCHANGED <<calls, bucket, useMarker, lastMarker, lastList, age, nanos, lastPut>>

\* Time passes: every cache grows older, up to the forced-refresh interval.
Tick ==
    /\ \E i \in Instances : age[i] < UpdateMarkerForceListInterval
    /\ age' = [i \in Instances |->
                 IF age[i] < UpdateMarkerForceListInterval THEN age[i] + 1 ELSE age[i]]
    /\ UNCHANGED <<calls, bucket, useMarker, lastMarker, lastList, nanos, th, lastPut, due>>

CacheNext ==
    \/ \E p \in Procs : ListStart(p)
    \/ \E p \in Procs : ListCheck(p)
    \/ \E p \in Procs : ListEnum(p)
    \/ \E p \in Procs : ListSwap(p)
    \/ \E p \in Mutators : StoreStart(p)
    \/ \E p \in Mutators : DeleteStart(p)
    \/ \E p \in Procs : SetMarkerTime(p)
    \/ \E p \in Procs : SetMarkerPut(p)
    \/ \E p \in Procs : SetMarkerLock(p)
    \/ \E p \in Procs : Return(p)
    \/ Tick


\* A List that has returned a listing to its caller.
Listed(p) == th[p].pc = "ret" /\ th[p].op = "list" /\ th[p].res = "ok"

\* The listing returned to p agrees with the bucket on name n.
Shows(p, n) == SizeIn(th[p].list, n) = SizeOf(bucket[prependGlobalPrefix(n)])

\* C1: with caching enabled, a List on one instance that begins after a
\* Store or Delete on the other instance has returned successfully is not
\* answered from a list cached before that mutation: it reports the stored
\* name with its new size and does not report the deleted name.
C1_ListSeesOtherInstance ==
    useMarker =>
        \A p \in Procs : \A n \in BlobNames :
            (/\ Listed(p)
             /\ HasPrefix(n, th[p].prefix)
             /\ due[p][n] # 0
             /\ due[p][n] # Inst(p)) => Shows(p, n)

\* C1 witness: a List on instance 2 with a warm cache refreshed because the
\* marker differed, after a Store by instance 1 had returned, and reports it.
C1_Witness ==
    /\ useMarker
    /\ Listed(3)
    /\ th[3].why = "marker"
    /\ \E n \in BlobNames :
          /\ HasPrefix(n, th[3].prefix)
          /\ due[3][n] = 1
          /\ SizeIn(th[3].list, n) > 0

ignoreSuffix == <<".", "t", "m", "p">>

FsDest == <<"a">>
Writers == {1, 2}

\* What each writer stores under FsDest, and what an earlier run left there.
FsPayload(w) == IF w = 1 THEN <<1, 2>> ELSE <<3>>
PriorPayload == <<9>>

\* fmt.Sprintf("%d", os.Getpid())
PidStr(pid) == IF pid = 1 THEN <<"1">> ELSE <<"2">>

\* Backend.Store: tmpPath := fullPath + ignoreSuffix
StoreTmpPath(fullPath) == fullPath \o ignoreSuffix

\* createAtomic: fmt.Sprintf("%s.%d%s", fpath, os.Getpid(), ignoreSuffix)
AtomicTmpPath(fpath, pid) == fpath \o <<".">> \o PidStr(pid) \o ignoreSuffix

FsPaths == {FsDest, StoreTmpPath(FsDest), AtomicTmpPath(FsDest, 1), AtomicTmpPath(FsDest, 2)}

\* One inode for the earlier file and one for each create.
MaxIno == 3

Contains(s, c) == \E i \in 1..Len(s) : s[i] = c

fsAllowedNameNoSuffix(name) ==
    /\ ~Contains(name, "/")
    /\ ~HasPrefix(name, <<".">>)

\* allowedName of the fs backend
fsAllowedName(name) ==
    /\ ~Contains(name, "/")
    /\ ~HasPrefix(name, <<".">>)
    /\ ~HasSuffix(name, ignoreSuffix)

\* write(2) of data at offset off into a file holding content.
WriteAt(content, off, data) ==
    LET n == IF Len(content) > off + Len(data) THEN Len(content) ELSE off + Len(data)
    IN [i \in 1..n |->
          IF i > off /\ i <= off + Len(data) THEN data[i - off]
          ELSE IF i <= Len(content) THEN content[i]
          ELSE 0]

FwIdle == [pc |-> "idle", kind |-> "none", tmp |-> <<>>, ino |-> 0, off |-> 0,
           sent |-> 0, res |-> "none", renamed |-> FALSE]
FldIdle == [pc |-> "idle", ino |-> 0, res |-> NoObj, err |-> "none"]
FlsIdle == [pc |-> "idle", entries |-> {}, list |-> <<>>]

\* What Load would read under path right now.
FileAt(path) == IF fdir[path] = 0 THEN NoObj ELSE Obj(fino[fdir[path]])

FsInit ==
    /\ prior \in {NoObj, Obj(PriorPayload)}
    /\ fdir = [p \in FsPaths |-> IF p = FsDest /\ prior # NoObj THEN 1 ELSE 0]
    /\ fino = [i \in 1..MaxIno |-> IF i = 1 /\ prior # NoObj THEN PriorPayload ELSE <<>>]
    /\ fnext = IF prior # NoObj THEN 2 ELSE 1
    /\ fpid \in {[w \in Writers |-> 1], [w \in Writers |-> w]}
    /\ fw = [w \in Writers |-> FwIdle]
    /\ fld = FldIdle
    /\ fls = FlsIdle
    /\ CacheAtRest
    /\ StreamAtRest
    /\ KvAtRest
    /\ NameAtRest
    /\ RegAtRest
    /\ PrefixAtRest
    /\ LockAtRest
    /\ PatchAtRest
    /\ AsFSAtRest

Finished(w, result) == [FwIdle EXCEPT !.pc = "done", !.kind = fw[w].kind,
                                     !.tmp = fw[w].tmp, !.res = result,
                                     !.renamed = fw[w].renamed]

\* os.Create(path): O_CREATE|O_TRUNC.  Writer w gets a descriptor at offset 0
\* on the file the path names, emptied, or on a new file.
OsCreate(w, path, kind, next) ==
    /\ IF fdir[path] # 0
       THEN /\ fino' = [fino EXCEPT ![fdir[path]] = <<>>]
            /\ fw' = [fw EXCEPT ![w] = [FwIdle EXCEPT !.pc = next, !.kind = kind,
                                                     !.tmp = path, !.ino = fdir[path]]]
            /\ UNCHANGED <<fdir, fnext>>
       ELSE /\ fnext <= MaxIno
            /\ fdir' = [fdir EXCEPT ![path] = fnext]
            /\ fino' = [fino EXCEPT ![fnext] = <<>>]
            /\ fnext' = fnext + 1
            /\ fw' = [fw EXCEPT ![w] = [FwIdle EXCEPT !.pc = next, !.kind = kind,
                                                     !.tmp = path, !.ino = fnext]]

\* os.Remove(path), its error ignored.
Removed(dir, path) == [dir EXCEPT ![path] = 0]

\* os.Rename(old, new) that succeeds.
Renamed(dir, old, new) == [dir EXCEPT ![new] = dir[old], ![old] = 0]

\* Backend.Store: writeFile's os.Create of the temp file.
FsStoreCreate(w) ==
    /\ fw[w].pc = "idle"
    /\ \/ OsCreate(w, StoreTmpPath(FsDest), "store", "s_write")
       \/ /\ fw' = [fw EXCEPT ![w] = [FwIdle EXCEPT !.pc = "done", !.kind = "store",
                                                   !.tmp = StoreTmpPath(FsDest),
                                                   !.res = ErrTransport]]
          /\ UNCHANGED <<fdir, fino, fnext>>
    /\ UNCHANGED <<fpid, fld, fls, prior>>

\* Backend.Store: writeFile's f.Write(data); on error the file is closed and
\* the error returned, the temp file stays.
FsStoreWrite(w) ==
    /\ fw[w].pc = "s_write"
    /\ \/ /\ fino' = [fino EXCEPT ![fw[w].ino] = WriteAt(@, fw[w].off, FsPayload(w))]
          /\ fw' = [fw EXCEPT ![w].pc = "s_sync", ![w].off = @ + Len(FsPayload(w)),
                              ![w].sent = Len(FsPayload(w))]
       \/ \E k \in 0..(Len(FsPayload(w)) - 1) :
          /\ fino' = [fino EXCEPT ![fw[w].ino] =
                         WriteAt(@, fw[w].off, SubSeq(FsPayload(w), 1, k))]
          /\ fw' = [fw EXCEPT ![w] = Finished(w, ErrTransport)]
    /\ UNCHANGED <<fdir, fnext, fpid, fld, fls, prior>>

\* Backend.Store: writeFile's f.Sync() and the deferred f.Close().
FsStoreSync(w) ==
    /\ fw[w].pc = "s_sync"
    /\ \/ fw' = [fw EXCEPT ![w].pc = "s_syncdir", ![w].ino = 0]
       \/ fw' = [fw EXCEPT ![w] = Finished(w, ErrTransport)]
    /\ UNCHANGED <<fdir, fino, fnext, fpid, fld, fls, prior>>

\* Backend.Store: syncDir(b.rootPath).
FsStoreSyncDir(w) ==
    /\ fw[w].pc = "s_syncdir"
    /\ \/ fw' = [fw EXCEPT ![w].pc = "s_rename"]
       \/ fw' = [fw EXCEPT ![w] = Finished(w, ErrTransport)]
    /\ UNCHANGED <<fdir, fino, fnext, fpid, fld, fls, prior>>

\* Backend.Store: os.Rename(tmpPath, fullPath).
FsStoreRename(w) ==
    /\ fw[w].pc = "s_rename"
    /\ \/ /\ fdir[fw[w].tmp] # 0
          /\ fdir' = Renamed(fdir, fw[w].tmp, FsDest)
          /\ fw' = [fw EXCEPT ![w] = [Finished(w, "ok") EXCEPT !.renamed = TRUE]]
       \/ /\ fdir[fw[w].tmp] = 0
          /\ fw' = [fw EXCEPT ![w] = Finished(w, ErrNotExist)]
          /\ UNCHANGED fdir
       \/ /\ fw' = [fw EXCEPT ![w] = Finished(w, ErrTransport)]
          /\ UNCHANGED fdir
    /\ UNCHANGED <<fino, fnext, fpid, fld, fls, prior>>

\* Backend.NewWriter: createAtomic's os.Create of the temp file.
FsNewWriter(w) ==
    /\ fw[w].pc = "idle"
    /\ \/ OsCreate(w, AtomicTmpPath(FsDest, fpid[w]), "writer", "w_open")
       \/ /\ fw' = [fw EXCEPT ![w] = [FwIdle EXCEPT !.pc = "done", !.kind = "writer",
                                                   !.tmp = AtomicTmpPath(FsDest, fpid[w]),
                                                   !.res = ErrTransport]]
          /\ UNCHANGED <<fdir, fino, fnext>>
    /\ UNCHANGED <<fpid, fld, fls, prior>>

\* atomicFile.Write of the next chunk of the payload.  A caller whose Write
\* failed gives the writer up.
FsWrite(w) ==
    /\ fw[w].pc = "w_open"
    /\ fw[w].sent < Len(FsPayload(w))
    /\ \E k \in 1..(Len(FsPayload(w)) - fw[w].sent) :
       \/ /\ fino' = [fino EXCEPT ![fw[w].ino] =
                         WriteAt(@, fw[w].off,
                                 SubSeq(FsPayload(w), fw[w].sent + 1, fw[w].sent + k))]
          /\ fw' = [fw EXCEPT ![w].off = @ + k, ![w].sent = @ + k]
       \/ /\ fino' = [fino EXCEPT ![fw[w].ino] =
                         WriteAt(@, fw[w].off,
                                 SubSeq(FsPayload(w), fw[w].sent + 1, fw[w].sent + k - 1))]
          /\ fw' = [fw EXCEPT ![w] = Finished(w, ErrTransport)]
    /\ UNCHANGED <<fdir, fnext, fpid, fld, fls, prior>>

\* atomicFile.Close: f.file.Sync(); on error the file is closed and the
\* deferred function removes the temp path.
FsCloseSync(w) ==
    /\ fw[w].pc = "w_open"
    /\ fw[w].sent = Len(FsPayload(w))
    /\ \/ /\ fw' = [fw EXCEPT ![w].pc = "w_closefile"]
          /\ UNCHANGED fdir
       \/ /\ fw' = [fw EXCEPT ![w] = Finished(w, ErrTransport)]
          /\ fdir' = Removed(fdir, fw[w].tmp)
    /\ UNCHANGED <<fino, fnext, fpid, fld, fls, prior>>

\* atomicFile.Close: f.file.Close().
FsCloseFile(w) ==
    /\ fw[w].pc = "w_closefile"
    /\ \/ /\ fw' = [fw EXCEPT ![w].pc = "w_rename", ![w].ino = 0]
          /\ UNCHANGED fdir
       \/ /\ fw' = [fw EXCEPT ![w] = Finished(w, ErrTransport)]
          /\ fdir' = Removed(fdir, fw[w].tmp)
    /\ UNCHANGED <<fino, fnext, fpid, fld, fls, prior>>

\* atomicFile.Close: os.Rename(f.tmp, f.path).
FsCloseRename(w) ==
    /\ fw[w].pc = "w_rename"
    /\ \/ /\ fdir[fw[w].tmp] # 0
          /\ fdir' = Renamed(fdir, fw[w].tmp, FsDest)
          /\ fw' = [fw EXCEPT ![w].pc = "w_dirsync", ![w].renamed = TRUE]
       \/ /\ fdir[fw[w].tmp] = 0
          /\ fw' = [fw EXCEPT ![w] = Finished(w, ErrNotExist)]
          /\ UNCHANGED fdir
       \/ /\ fw' = [fw EXCEPT ![w] = Finished(w, ErrTransport)]
          /\ fdir' = Removed(fdir, fw[w].tmp)
    /\ UNCHANGED <<fino, fnext, fpid, fld, fls, prior>>

\* atomicFile.Close: opening and syncing the directory; on error the deferred
\* function removes whatever the temp path names by then.
FsCloseDirSync(w) ==
    /\ fw[w].pc = "w_dirsync"
    /\ \/ /\ fw' = [fw EXCEPT ![w] = Finished(w, "ok")]
          /\ UNCHANGED fdir
       \/ /\ fw' = [fw EXCEPT ![w] = Finished(w, ErrTransport)]
          /\ fdir' = Removed(fdir, fw[w].tmp)
    /\ UNCHANGED <<fino, fnext, fpid, fld, fls, prior>>

\* The writing process is killed between creating its temp file and the
\* rename; nothing of it runs any more.
FsInterrupt(w) ==
    /\ fw[w].pc \in {"s_write", "s_sync", "s_syncdir", "s_rename",
                     "w_open", "w_closefile", "w_rename"}
    /\ fw' = [fw EXCEPT ![w] = [Finished(w, "interrupted") EXCEPT !.pc = "killed"]]
    /\ UNCHANGED <<fdir, fino, fnext, fpid, fld, fls, prior>>

\* Backend.Load: os.ReadFile opens the file ...
FsLoadOpen ==
    /\ fld.pc = "idle"
    /\ IF fdir[FsDest] = 0
       THEN fld' = [FldIdle EXCEPT !.pc = "done", !.err = ErrNotExist]
       ELSE fld' = [FldIdle EXCEPT !.pc = "reading", !.ino = fdir[FsDest]]
    /\ UNCHANGED <<fdir, fino, fnext, fpid, fw, fls, prior>>

\* ... and reads it to the end.
FsLoadRead ==
    /\ fld.pc = "reading"
    /\ fld' = [FldIdle EXCEPT !.pc = "done", !.res = Obj(fino[fld.ino]), !.err = "ok"]
    /\ UNCHANGED <<fdir, fino, fnext, fpid, fw, fls, prior>>

FsLoadReturn ==
    /\ fld.pc = "done"
    /\ fld' = FldIdle
    /\ UNCHANGED <<fdir, fino, fnext, fpid, fw, fls, prior>>

\* Backend.List: os.ReadDir.
FsListReadDir ==
    /\ fls.pc = "idle"
    /\ fls' = [FlsIdle EXCEPT !.pc = "entries", !.entries = {p \in FsPaths : fdir[p] # 0}]
    /\ UNCHANGED <<fdir, fino, fnext, fpid, fw, fld, prior>>

\* Backend.List: the loop over the entries (name filter, Info, size) and the sort.
FsListFilter ==
    /\ fls.pc = "entries"
    /\ LET keep == {p \in fls.entries : fsAllowedName(p) /\ fdir[p] # 0}
           names == SortNames(keep)
       IN fls' = [fls EXCEPT !.pc = "done",
                     !.list = [i \in 1..Len(names) |->
                                 [Name |-> names[i], Size |-> Len(fino[fdir[names[i]]])]]]
    /\ UNCHANGED <<fdir, fino, fnext, fpid, fw, fld, prior>>

FsListReturn ==
    /\ fls.pc = "done"
    /\ fls' = FlsIdle
    /\ UNCHANGED <<fdir, fino, fnext, fpid, fw, fld, prior>>

FsNext ==
    \/ \E w \in Writers : FsStoreCreate(w)
    \/ \E w \in Writers : FsStoreWrite(w)
    \/ \E w \in Writers : FsStoreSync(w)
    \/ \E w \in Writers : FsStoreSyncDir(w)
    \/ \E w \in Writers : FsStoreRename(w)
    \/ \E w \in Writers : FsNewWriter(w)
    \/ \E w \in Writers : FsWrite(w)
    \/ \E w \in Writers : FsCloseSync(w)
    \/ \E w \in Writers : FsCloseFile(w)
    \/ \E w \in Writers : FsCloseRename(w)
    \/ \E w \in Writers : FsCloseDirSync(w)
    \/ \E w \in Writers : FsInterrupt(w)
    \/ FsLoadOpen
    \/ FsLoadRead
    \/ FsLoadReturn
    \/ FsListReadDir
    \/ FsListFilter
    \/ FsListReturn

WholePayloads == {Obj(FsPayload(w)) : w \in Writers}

\* C3: a Load that runs while a Store, or the Close of a writer, of the same
\* name is under way returns the complete previous content or the complete
\* new content, never a part of either.
C3_LoadSeesWholeContent ==
    (fld.pc = "done" /\ fld.err = "ok") => fld.res \in ({prior} \cup WholePayloads)

\* C4: two writers of the same destination never work on the same temp file,
\* and once both have finished and one of them has reported success the
\* destination holds one of the two payloads in full.
C4_WritersDoNotShareTemp ==
    /\ \A v, w \in Writers :
          (v # w /\ fw[v].ino # 0 /\ fw[w].ino # 0) => fw[v].ino # fw[w].ino
    /\ ((\A w \in Writers : fw[w].pc = "done") /\ (\E w \in Writers : fw[w].res = "ok"))
          => FileAt(FsDest) \in WholePayloads

\* C5: when a step of a write fails (writing or flushing the temp file, the
\* rename, flushing the directory), the writer's temp file is gone and the
\* destination still holds what it held before.
C5_FailureLeavesNoTrace ==
    \A w \in Writers :
        (/\ fw[w].pc = "done"
         /\ fw[w].res # "ok"
         /\ \A v \in Writers \ {w} : fw[v].pc = "idle")
        => (fdir[fw[w].tmp] = 0 /\ FileAt(FsDest) = prior)

\* C6: an interrupted write is invisible.  As long as no writer has renamed
\* its temp file, whatever the writers did and wherever they were stopped,
\* the destination holds what it held before (or does not exist) and a Load
\* returns just that; and no List ever returns a name with the temp suffix.
C6_InterruptedWriteInvisible ==
    /\ (\A w \in Writers : ~fw[w].renamed) => FileAt(FsDest) = prior
    /\ (fld.pc = "done" /\ \A w \in Writers : ~fw[w].renamed) =>
          (IF prior = NoObj THEN fld.err = ErrNotExist ELSE fld.res = prior)
    /\ fls.pc = "done" =>
          \A i \in 1..Len(fls.list) : ~HasSuffix(fls.list[i].Name, ignoreSuffix)

\* A writer was stopped after it had put bytes into its temp file; a Load and
\* a List have run to the end with that file still in the directory.
C6_Witness ==
    /\ \E w \in Writers :
          /\ fw[w].pc = "killed"
          /\ fdir[fw[w].tmp] # 0
          /\ fino[fdir[fw[w].tmp]] # <<>>
          /\ fw[w].tmp \in fls.entries
    /\ \A w \in Writers : ~fw[w].renamed
    /\ fls.pc = "done"
    /\ fld.pc = "done"
    /\ prior # NoObj
    /\ fld.res = prior

\* C37: in every filesystem write that succeeds the steps come in the order
\* of the protocol: the rename happens after the temp file's data was
\* flushed, the directory is flushed only after the rename, and the write
\* returns nil only out of that directory flush.
C37_ProtocolOrder ==
    [][\A w \in Writers :
          /\ (~fw[w].renamed /\ fw'[w].renamed)
                => fw[w].pc \in {"s_rename", "w_rename"}
          /\ (\/ fw[w].pc = "s_syncdir" /\ fw'[w].pc = "s_rename"
              \/ fw[w].pc = "w_dirsync" /\ fw'[w].res = "ok")
                => fw[w].renamed
          /\ (fw[w].res # "ok" /\ fw'[w].res = "ok")
                => fw[w].pc \in {"s_syncdir", "w_dirsync"}]_vars

\* ------------------------------------------------------------------------
\* Streaming writers: the buffered fallback and the pipe-and-goroutine writers
\* ------------------------------------------------------------------------
\* Calls to Write and calls to Close made on one writer.
MaxWrites == 2
MaxCloses == 2

\* The writers of the repository: simpleblob.fallbackWriter, the S3
\* writerWrapper that starts its upload on the first Write ("s3"), the S3
\* writerWrapper that starts it in NewWriter ("s3eager"), and the Azure
\* writerWrapper.
WriterKinds == {"fallback", "s3", "s3eager", "azure"}
PipeKinds == {"s3", "s3eager", "azure"}

ErrClosed == "ErrClosed"
ErrClosedPipe == "ErrClosedPipe"
ErrUpload == "ErrUpload"
ErrCanceled == "ErrCanceled"
ErrStore == "ErrStore"
Panic == "panic"

\* The p of the caller's n-th Write.
Chunk(n) == <<n>>

\* NewWriter of each kind: the lazy S3 writer has no pipe yet, the other pipe
\* writers have their pipe and their upload goroutine running.
NewWrap(kind) ==
    [closed |-> FALSE, buf |-> <<>>,
     pw |-> kind \in {"s3eager", "azure"},
     wclosed |-> FALSE, rerr |-> "open", pend |-> <<>>,
     donePipe |-> FALSE, etag |-> FALSE]

NewUpload(kind) ==
    [pc |-> IF kind \in {"s3eager", "azure"} THEN "reading" ELSE "none",
     got |-> <<>>, err |-> "none"]

StreamInit ==
    /\ wkind \in WriterKinds
    /\ sUseMarker \in BOOLEAN
    /\ sblob \in {NoObj, Obj(PriorPayload)}
    /\ smark = 0
    /\ sputs = IF wkind \in {"s3eager", "azure"} THEN 1 ELSE 0
    /\ sctx = FALSE
    /\ wrap = NewWrap(wkind)
    /\ upload = NewUpload(wkind)
    /\ caller = [pc |-> "ready", nW |-> 0, nC |-> 0, lastW |-> "none"]
    /\ seen = [was |-> sblob, sent |-> <<>>, closes |-> <<>>, lateOk |-> FALSE,
               late |-> {}, failed |-> FALSE, early |-> FALSE]
    /\ CacheAtRest
    /\ FsAtRest
    /\ KvAtRest
    /\ NameAtRest
    /\ RegAtRest
    /\ PrefixAtRest
    /\ LockAtRest
    /\ PatchAtRest
    /\ AsFSAtRest

\* History: a Write of chunk returned nil.
SeenWrite(chunk) ==
    IF seen.closes = <<>>
    THEN [seen EXCEPT !.sent = @ \o chunk]
    ELSE [seen EXCEPT !.lateOk = TRUE, !.late = @ \cup {chunk[i] : i \in 1..Len(chunk)}]

\* History: a Close returned res.
SeenClose(res, marks, puts) ==
    [seen EXCEPT !.closes = Append(@, [res |-> res, marks |-> marks, puts |-> puts,
                                       failed |-> seen.failed])]

\* Write.  fallbackWriter: ErrClosed once closed, else the bytes go to buf.
\* writerWrapper: the lazy S3 writer makes its pipe and starts the upload
\* goroutine if it has none, then every kind calls pw.Write, which fails at
\* once on a closed pipe and otherwise waits for the reader.
Write ==
    /\ caller.pc = "ready"
    /\ caller.nW < MaxWrites
    /\ LET chunk == Chunk(caller.nW + 1)
       IN IF wkind = "fallback"
          THEN /\ IF wrap.closed
                  THEN /\ caller' = [caller EXCEPT !.nW = @ + 1, !.lastW = ErrClosed]
                       /\ UNCHANGED <<wrap, seen>>
                  ELSE /\ wrap' = [wrap EXCEPT !.buf = @ \o chunk]
                       /\ caller' = [caller EXCEPT !.nW = @ + 1, !.lastW = "ok"]
                       /\ seen' = SeenWrite(chunk)
               /\ UNCHANGED <<upload, sputs>>
          ELSE LET fresh == ~wrap.pw
                   waits == ~wrap.wclosed /\ wrap.rerr = "open"
               IN /\ wrap' = [wrap EXCEPT !.pw = TRUE,
                                          !.pend = IF waits THEN chunk ELSE <<>>]
                  /\ upload' = IF fresh THEN [upload EXCEPT !.pc = "reading"] ELSE upload
                  /\ sputs' = IF fresh THEN sputs + 1 ELSE sputs
                  /\ caller' = [caller EXCEPT
                                  !.nW = @ + 1,
                                  !.pc = IF waits THEN "w_blocked" ELSE "ready",
                                  !.lastW = IF waits THEN "pending"
                                            ELSE IF wrap.wclosed THEN ErrClosedPipe
                                            ELSE wrap.rerr]
                  /\ UNCHANGED seen
    /\ UNCHANGED <<wkind, sUseMarker, sblob, smark, sctx>>

\* doStoreReader reads what a Write waits to hand over; that Write returns nil.
UploadRead ==
    /\ upload.pc = "reading"
    /\ wrap.pend # <<>>
    /\ upload' = [upload EXCEPT !.got = @ \o wrap.pend]
    /\ wrap' = [wrap EXCEPT !.pend = <<>>]
    /\ caller' = [caller EXCEPT !.pc = "ready", !.lastW = "ok"]
    /\ seen' = SeenWrite(wrap.pend)
    /\ UNCHANGED <<wkind, sUseMarker, sblob, smark, sputs, sctx>>

\* doStoreReader reads EOF from the closed pipe, the object store puts the
\* object and the upload returns its info.
UploadCommit ==
    /\ upload.pc = "reading"
    /\ wrap.wclosed
    /\ wrap.pend = <<>>
    /\ sblob' = Obj(upload.got)
    /\ wrap' = [wrap EXCEPT !.etag = TRUE]
    /\ upload' = [upload EXCEPT !.pc = "returned", !.err = "ok"]
    /\ UNCHANGED <<wkind, sUseMarker, smark, sputs, sctx, caller, seen>>

\* doStoreReader returns an error (the server, the network, the context):
\* nothing is stored and info stays empty.
UploadFail ==
    /\ upload.pc = "reading"
    /\ upload' = [upload EXCEPT !.pc = "returned", !.err = ErrUpload]
    /\ seen' = [seen EXCEPT !.failed = TRUE]
    /\ UNCHANGED <<wkind, sUseMarker, sblob, smark, sputs, sctx, wrap, caller>>

\* pr.CloseWithError(err): a Write that waits, and every later one, gets err,
\* or ErrClosedPipe when err is nil.
UploadCloseReader ==
    /\ upload.pc = "returned"
    /\ LET e == IF upload.err = "ok" THEN ErrClosedPipe ELSE upload.err
       IN /\ wrap' = [wrap EXCEPT !.rerr = IF wrap.rerr = "open" THEN e ELSE @,
                                  !.pend = <<>>]
          /\ caller' = IF caller.pc = "w_blocked"
                       THEN [caller EXCEPT !.pc = "ready", !.lastW = e]
                       ELSE caller
    /\ upload' = [upload EXCEPT !.pc = "closed"]
    /\ UNCHANGED <<wkind, sUseMarker, sblob, smark, sputs, sctx, seen>>

\* close(w.donePipe), or wrap.done <- struct{}{} in the eager S3 writer.
UploadDone ==
    /\ upload.pc = "closed"
    /\ wrap' = [wrap EXCEPT !.donePipe = TRUE]
    /\ upload' = [upload EXCEPT !.pc = "finished"]
    /\ UNCHANGED <<wkind, sUseMarker, sblob, smark, sputs, sctx, caller, seen>>

\* Close, up to the point where a pipe writer waits for its upload.
\* fallbackWriter: ErrClosed when closed, else closed is set and Store called.
\* Lazy S3 writer: without a pipe it goes straight to setMarker.  Azure
\* writer: ErrClosed when donePipe is closed already.  pw.Close returns nil.
Close ==
    /\ caller.pc = "ready"
    /\ caller.nC < MaxCloses
    /\ \/ /\ wkind = "fallback"
          /\ wrap.closed
          /\ caller' = [caller EXCEPT !.nC = @ + 1]
          /\ seen' = SeenClose(ErrClosed, smark, sputs)
          /\ UNCHANGED <<wrap, sblob, sputs>>
       \/ /\ wkind = "fallback"
          /\ ~wrap.closed
          /\ wrap' = [wrap EXCEPT !.closed = TRUE]
          /\ sputs' = sputs + 1
          /\ caller' = [caller EXCEPT !.nC = @ + 1]
          /\ \/ /\ sblob' = Obj(wrap.buf)
                /\ seen' = SeenClose("ok", smark, sputs + 1)
             \/ /\ sblob' = sblob
                /\ seen' = SeenClose(ErrStore, smark, sputs + 1)
       \/ /\ wkind = "s3"
          /\ ~wrap.pw
          /\ caller' = [caller EXCEPT !.pc = "c_marker"]
          /\ UNCHANGED <<wrap, sblob, sputs, seen>>
       \/ /\ wkind = "azure"
          /\ wrap.donePipe
          /\ caller' = [caller EXCEPT !.nC = @ + 1]
          /\ seen' = SeenClose(ErrClosed, smark, sputs)
          /\ UNCHANGED <<wrap, sblob, sputs>>
       \/ /\ \/ wkind = "s3" /\ wrap.pw
             \/ wkind = "s3eager"
             \/ wkind = "azure" /\ ~wrap.donePipe
          /\ wrap' = [wrap EXCEPT !.wclosed = TRUE]
          /\ caller' = [caller EXCEPT !.pc = "c_wait"]
          /\ UNCHANGED <<sblob, sputs, seen>>
    /\ UNCHANGED <<wkind, sUseMarker, smark, sctx, upload>>

\* Close: the upload goroutine has signalled.  The eager S3 writer takes the
\* one value out of its done channel.  The Azure writer dereferences
\* w.info.ETag, which is nil when the upload failed.
CloseWait ==
    /\ caller.pc = "c_wait"
    /\ wrap.donePipe
    /\ wrap' = IF wkind = "s3eager" THEN [wrap EXCEPT !.donePipe = FALSE] ELSE wrap
    /\ IF wkind = "azure" /\ ~wrap.etag
       THEN /\ caller' = [caller EXCEPT !.pc = "panicked", !.nC = @ + 1]
            /\ seen' = SeenClose(Panic, smark, sputs)
       ELSE /\ caller' = [caller EXCEPT !.pc = "c_marker"]
            /\ seen' = seen
    /\ UNCHANGED <<wkind, sUseMarker, sblob, smark, sputs, sctx, upload>>

\* Close of an S3 writer: the select takes <-w.ctx.Done() and returns ctx.Err().
CloseCancel ==
    /\ caller.pc = "c_wait"
    /\ wkind \in {"s3", "s3eager"}
    /\ sctx
    /\ caller' = [caller EXCEPT !.pc = "ready", !.nC = @ + 1]
    /\ seen' = SeenClose(ErrCanceled, smark, sputs)
    /\ UNCHANGED <<wkind, sUseMarker, sblob, smark, sputs, sctx, wrap, upload>>

\* Close: return w.backend.setMarker(...), which returns nil without a
\* marker and else what storing the marker returns.
CloseSetMarker ==
    /\ caller.pc = "c_marker"
    /\ caller' = [caller EXCEPT !.pc = "ready", !.nC = @ + 1]
    /\ \/ /\ ~sUseMarker
          /\ seen' = SeenClose("ok", smark, sputs)
          /\ UNCHANGED smark
       \/ /\ sUseMarker
          /\ smark' = smark + 1
          /\ seen' = SeenClose("ok", smark + 1, sputs)
       \/ /\ sUseMarker
          /\ seen' = SeenClose(ErrTransport, smark, sputs)
          /\ UNCHANGED smark
    /\ UNCHANGED <<wkind, sUseMarker, sblob, sputs, sctx, wrap, upload>>

\* The context the writer was made with is cancelled.  History: early tells
\* that no upload had returned by then.
CancelContext ==
    /\ ~sctx
    /\ wkind \in PipeKinds
    /\ sctx' = TRUE
    /\ seen' = [seen EXCEPT !.early = upload.pc \in {"none", "reading"}]
    /\ UNCHANGED <<wkind, sUseMarker, sblob, smark, sputs, wrap, upload, caller>>

StreamNext ==
    \/ Write
    \/ UploadRead
    \/ UploadCommit
    \/ UploadFail
    \/ UploadCloseReader
    \/ UploadDone
    \/ Close
    \/ CloseWait
    \/ CloseCancel
    \/ CloseSetMarker
    \/ CancelContext

\* C7: what is written to a writer from NewWriter cannot be seen by Load or
\* List before Close is called; once Close has returned nil, Load returns the
\* bytes of the Writes in order and List has the name.
C7_WriterPublishesOnClose ==
    /\ (seen.closes = <<>> /\ caller.pc \in {"ready", "w_blocked"}) => sblob = seen.was
    /\ (Len(seen.closes) = 1 /\ seen.closes[1].res = "ok" /\ caller.pc = "ready")
          => sblob = Obj(seen.sent)

\* C8: when the background upload of a pipe writer has failed, Close returns
\* an error that tells of it: not nil, no crash, not the already-closed error.
C8_CloseReportsUploadFailure ==
    (wkind \in PipeKinds /\ seen.closes # <<>> /\ seen.closes[1].failed)
        => seen.closes[1].res \notin {"ok", Panic, ErrClosed}

\* C9: a second Close returns the closed-resource error without waiting, and
\* starts no Store, no upload and no marker update.
C9_SecondCloseIsRejected ==
    /\ Len(seen.closes) >= 2 =>
          /\ seen.closes[2].res = ErrClosed
          /\ seen.closes[2].marks = seen.closes[1].marks
          /\ seen.closes[2].puts = seen.closes[1].puts
    /\ ~(/\ seen.closes # <<>>
         /\ caller.pc = "c_wait"
         /\ upload.pc = "finished"
         /\ ~wrap.donePipe
         /\ ~sctx)

\* C10: a Write made after Close returns an error, and none of its bytes ever
\* reach the blob.
C10_WriteAfterCloseFails ==
    /\ ~seen.lateOk
    /\ sblob # NoObj => \A i \in 1..Len(sblob[1]) : sblob[1][i] \notin seen.late

\* C11: when the context of a pipe writer was cancelled before its upload
\* had returned and the upload then failed, Close returns the cancellation
\* error.
C11_CloseReturnsCancellation ==
    (/\ wkind \in PipeKinds
     /\ seen.early
     /\ seen.closes # <<>>
     /\ seen.closes[1].failed)
    => seen.closes[1].res = ErrCanceled

\* C34: whenever a Close of a pipe writer returns, whatever it returns, the
\* writer's upload goroutine (if one was started) has finished.
C34_CloseJoinsUpload ==
    [][(wkind \in PipeKinds /\ Len(seen'.closes) > Len(seen.closes))
          => upload.pc \in {"none", "finished"}]_vars

\* C35: a Close of a pipe writer writes the marker only after the upload
\* goroutine's doStoreReader call has returned, never before it and never
\* while it runs.
C35_MarkerAfterUpload ==
    [][(wkind \in PipeKinds /\ smark' # smark)
          => upload.pc \in {"returned", "closed", "finished"}]_vars

\* C36: a pipe writer never has more than one upload goroutine, and once a
\* Close has returned it has had exactly one, whatever Writes were made.
C36_OneUploadPerWriter ==
    wkind \in PipeKinds =>
        /\ sputs <= 1
        /\ seen.closes # <<>> => sputs = 1

\* C38: when the first Close of a writer has returned nil, the store is as
\* after one Store of the bytes of the Writes in order (of no bytes when
\* there was no Write): the blob holds them and, with the update marker
\* enabled, that Close has written one marker.
C38_WriterEqualsStore ==
    (seen.closes # <<>> /\ seen.closes[1].res = "ok") =>
        /\ sblob = Obj(seen.sent)
        /\ (wkind \in PipeKinds /\ sUseMarker) => seen.closes[1].marks = 1
        /\ seen.closes[1].puts = 1

\* C24: no Close of a writer ends in a panic; in particular a Close that
\* follows a failed background upload returns to its caller.
C24_CloseNeverPanics ==
    \A i \in 1..Len(seen.closes) : seen.closes[i].res # Panic

\* C13: a List that finds its instance's last refresh at least one forced-
\* refresh interval old enumerates the store, even with an unchanged marker,
\* and what it caches and returns is the store's content at that enumeration.
C13_ForcedRefresh ==
    [][\A p \in Procs :
          /\ (/\ th[p].pc = "list_check"
              /\ age[Inst(p)] >= UpdateMarkerForceListInterval
              /\ th'[p] # th[p])
                => th'[p].pc = "list_enum"
          /\ (th[p].pc = "list_enum" /\ th'[p].pc = "list_swap")
                => th'[p].blobs = doList(bucket, GlobalPrefix)
          /\ (th[p].pc = "list_swap" /\ th'[p].pc = "ret")
                => /\ th'[p].list = WithPrefix(th[p].blobs, th[p].prefix)
                   /\ lastList'[Inst(p)] = th[p].blobs]_vars

\* The store was changed with the marker still as the instance knows it, the
\* instance's list is out of date and one interval old, and a List refreshes.
C13_Witness ==
    \E p \in Procs : \E n \in BlobNames :
        /\ th[p].pc = "list_enum"
        /\ th[p].why = "interval"
        /\ th[p].exists
        /\ th[p].um = lastMarker[Inst(p)]
        /\ lastList[Inst(p)] # <<>>
        /\ SizeIn(lastList[Inst(p)], n) # SizeOf(bucket[prependGlobalPrefix(n)])

\* C15: with caching disabled every List returns what an enumeration of the
\* store gives at that call, no marker object is ever written, and every
\* instance keeps an empty lastMarker and no cached list.
C15_CachingDisabledPassthrough ==
    /\ [](~useMarker =>
            /\ bucket[UpdateMarkerFilename] = NoObj
            /\ \A i \in Instances : lastMarker[i] = EmptyMarker /\ lastList[i] = <<>>)
    /\ [][\A p \in Procs :
            (~useMarker /\ th[p].pc = "idle" /\ th'[p].op = "list" /\ th'[p].res = "ok")
                => /\ th'[p].pc = "ret"
                   /\ th'[p].list = doList(bucket, prependGlobalPrefix(th'[p].prefix))]_vars

\* Caching is disabled, a Store and a Delete have returned nil and a List has
\* returned the stored blob straight from the store.
C15_Witness ==
    /\ ~useMarker
    /\ th[1].op = "delete" /\ th[1].pc = "ret" /\ th[1].res = "ok"
    /\ th[3].op = "store" /\ th[3].pc = "ret" /\ th[3].res = "ok"
    /\ Listed(2) /\ th[2].why = "direct"
    /\ \E n \in BlobNames : SizeIn(th[2].list, n) > 0

\* ------------------------------------------------------------------------
\* The backends behind simpleblob.Interface: memory, fs, S3, Azure
\* ------------------------------------------------------------------------
\* Number of Interface calls made in one run of the backends model.
KMaxOps == 3

Backends == {"memory", "fs", "s3", "azure"}
\* The backends with Options.UseUpdateMarker.
MarkerBackends == {"s3", "azure"}

\* A name CheckName accepts and one it rejects (it starts with a dot).
GoodName == <<"a">>
BadName == <<".", "a">>
KNames == {GoodName, BadName}
\* The prefixes List is called with: everything, and names starting with a.
KPrefixes == {<<>>, <<"a">>}

ErrPermission == "ErrPermission"
\* The Azure SDK's *azcore.ResponseError with ErrorCode BlobNotFound.
ErrBlobNotFound == "BlobNotFound"
ErrName == "NameError"

\* The NUL character.
Nul == "NUL"

CheckNameNoSuffix(s) ==
    IF s = <<>> THEN ErrName
    ELSE IF Contains(s, "/") \/ Contains(s, Nul) THEN ErrName
    ELSE IF HasPrefix(s, <<".">>) THEN ErrName
    ELSE "ok"

\* simpleblob.CheckName: "ok" for nil, else the NameError.
CheckName(s) ==
    IF s = <<>> THEN ErrName
    ELSE IF Contains(s, "/") \/ Contains(s, Nul) THEN ErrName
    ELSE IF HasPrefix(s, <<".">>) THEN ErrName
    ELSE IF HasSuffix(s, ignoreSuffix) THEN ErrName
    ELSE "ok"

\* Byte slices live in heap cells; cell CallerBuf is the slice the caller
\* passes to Store.
KCells == 1..(KMaxOps + 3)
CallerBuf == 1

\* A store used before: the names it holds, the slices holding their bytes,
\* and the version of the marker the last of those Stores wrote.
UsedNames(b) == IF b = "fs" THEN {GoodName} ELSE KNames
UsedCell(name) == IF name = GoodName THEN 2 ELSE 3
UsedBytes(cell) == IF cell = 2 THEN <<1>> ELSE <<2, 3>>
PriorMarker == 0 - 1

\* The last call: what it was, what it returned (err, got, list), whether
\* the name was there before it (for List: the marker), whether the backing
\* store was read or written, the error of List's marker read, the slice an
\* earlier Load returned that the caller still holds, and whether List
\* enumerated ("direct", "refresh") or answered from its cache ("cached").
KNone == [op |-> "none", name |-> <<>>, err |-> "ok", touched |-> FALSE,
          was |-> FALSE, got |-> FALSE, list |-> <<>>, merr |-> "none",
          held |-> 0, why |-> "none"]

\* What one backend call did: its error, whether the blob changed, whether
\* the marker was written, whether the backing store was read or written.
Outcome(err, eff, touched) ==
    [err |-> err, eff |-> eff, marked |-> FALSE, touched |-> touched]

\* The caller overwriting bytes of a slice in place.
Scribble(bytes) == [i \in 1..Len(bytes) |-> (bytes[i] + 4) % 8]

\* make([]byte, len(data)); copy(dataCopy, data): the copy is a new slice.
dataCopyAliased(src, fresh) == src

dataCopy(src, fresh) == fresh

\* b.blobs[name] = dataCopy, and the PUT / rename of the other backends.
Stored(store, name, cell) == [store EXCEPT ![name] = cell]

\* (s3) Backend.setMarker after a blob change with outcome o.
setMarker(o) ==
    IF ~kmark THEN {o}
    ELSE {[o EXCEPT !.marked = TRUE], [o EXCEPT !.err = ErrTransport]}

\* (azure) Backend.setMarker: writes the marker object that
\* Load(UpdateMarkerFilename) reads back.
azureSetMarker(o) ==
    IF ~kmark THEN {o}
    ELSE {[o EXCEPT !.marked = TRUE], [o EXCEPT !.err = ErrTransport]}

\* ---- Store
memoryStore(name) == {Outcome("ok", TRUE, TRUE)}

fsStore(name) ==
    IF ~fsAllowedName(name) THEN {Outcome(ErrPermission, FALSE, FALSE)}
    ELSE {Outcome("ok", TRUE, TRUE), Outcome(ErrTransport, FALSE, TRUE)}

s3Store(name) ==
    {Outcome(ErrTransport, FALSE, TRUE)} \cup setMarker(Outcome("ok", TRUE, TRUE))

azureStore(name) ==
    {Outcome(ErrTransport, FALSE, TRUE)} \cup azureSetMarker(Outcome("ok", TRUE, TRUE))

\* ---- Delete
memoryDelete(name) == {Outcome("ok", TRUE, TRUE)}

\* os.Remove of the joined path, whatever the name is.
fsDelete(name) ==
    IF kstore[name] = 0 THEN {Outcome(ErrNotExist, FALSE, TRUE)}
    ELSE {Outcome("ok", TRUE, TRUE), Outcome(ErrTransport, FALSE, TRUE)}

\* RemoveObject reports no error for a key that is not there.
s3Delete(name) ==
    {Outcome(ErrTransport, FALSE, TRUE)} \cup setMarker(Outcome("ok", TRUE, TRUE))

\* DeleteBlob's error is returned as it is.
azureDelete(name) ==
    IF kstore[name] = 0 THEN {Outcome(ErrBlobNotFound, FALSE, TRUE)}
    ELSE {Outcome(ErrTransport, FALSE, TRUE)} \cup azureSetMarker(Outcome("ok", TRUE, TRUE))

\* ---- Load and NewReader (eff: the call returned the blob's bytes)
memoryLoad(present) ==
    IF present THEN {Outcome("ok", TRUE, TRUE)} ELSE {Outcome(ErrNotExist, FALSE, TRUE)}

fsLoad(name, present) ==
    IF ~fsAllowedName(name) THEN {Outcome(ErrNotExist, FALSE, FALSE)}
    ELSE IF present THEN {Outcome("ok", TRUE, TRUE), Outcome(ErrTransport, FALSE, TRUE)}
    ELSE {Outcome(ErrNotExist, FALSE, TRUE)}

\* convertMinioError turns NoSuchKey into os.ErrNotExist.
s3doLoadReader(present) ==
    {Outcome(ErrTransport, FALSE, TRUE)} \cup
    (IF present THEN {Outcome("ok", TRUE, TRUE)} ELSE {Outcome(ErrNotExist, FALSE, TRUE)})

\* DownloadStream's error is returned as it is.
azuredoLoadReader(present) ==
    {Outcome(ErrTransport, FALSE, TRUE)} \cup
    (IF present THEN {Outcome("ok", TRUE, TRUE)} ELSE {Outcome(ErrBlobNotFound, FALSE, TRUE)})

LoadOutcomes(name, present) ==
    CASE kb = "memory" -> memoryLoad(present)
      [] kb = "fs"     -> fsLoad(name, present)
      [] kb = "s3"     -> s3doLoadReader(present)
      [] kb = "azure"  -> azuredoLoadReader(present)

\* ---- List
Entry(name, size) == [Name |-> name, Size |-> size]

KSize(name) ==
    IF name = UpdateMarkerFilename THEN 1 ELSE Len(kheap[kstore[name]])

ListingUnsorted(names) ==
    LET sorted == SortNames(names)
        n == Len(sorted)
    IN [i \in 1..n |-> Entry(sorted[n + 1 - i], KSize(sorted[n + 1 - i]))]

\* The entries of the names, after sort.Sort.
Listing(names) ==
    LET sorted == SortNames(names)
    IN [i \in 1..Len(sorted) |-> Entry(sorted[i], KSize(sorted[i]))]

Present == {n \in KNames : kstore[n] # 0}
MarkerObject == IF kmarker # 0 THEN {UpdateMarkerFilename} ELSE {}

memoryList(prefix) == Listing({n \in Present : HasPrefix(n, prefix)})

fsList(prefix) == Listing({n \in Present : fsAllowedName(n) /\ HasPrefix(n, prefix)})

\* (s3) doList skips the key equal to b.markerName.
s3doList(prefix) ==
    Listing({k \in Present \cup MarkerObject :
                HasPrefix(k, prefix) /\ prependGlobalPrefix(k) # markerName})

\* (azure) doList keeps every blob name that has the prefix.
azuredoList(prefix) ==
    Listing({k \in Present \cup MarkerObject : HasPrefix(k, prefix)})

kdoList(prefix) ==
    IF kb = "s3" THEN s3doList(prefix) ELSE azuredoList(prefix)

\* List of S3 and Azure: the outcomes as <<err, list, cache', error of the
\* marker read, path taken>>.  stale is
\* time.Since(b.lastTime) >= UpdateMarkerForceListInterval.
markerList(prefix, stale) ==
    IF ~kmark
    THEN {<<"ok", kdoList(prependGlobalPrefix(prefix)), kcache, "none", "direct">>,
          <<ErrTransport, <<>>, kcache, "none", "direct">>}
    ELSE UNION {
           LET err == m.err
               upstreamMarker == IF err = "ok" THEN kmarker ELSE 0
               exists == err # ErrNotExist
               mustUpdate == \/ kcache.lastList = <<>>
                             \/ upstreamMarker # kcache.lastMarker
                             \/ stale
                             \/ ~exists
               blobs == kdoList(GlobalPrefix)
           IN IF err # "ok" /\ exists THEN {<<err, <<>>, kcache, err, "marker">>}
              ELSE IF ~mustUpdate
                   THEN {<<"ok", WithPrefix(kcache.lastList, prefix), kcache, err, "cached">>}
                   ELSE {<<ErrTransport, <<>>, kcache, err, "refresh">>,
                         <<"ok", WithPrefix(blobs, prefix),
                           [lastMarker |-> upstreamMarker, lastList |-> blobs], err,
                           "refresh">>}
           : m \in LoadOutcomes(UpdateMarkerFilename, kmarker # 0)}

KvInit ==
    /\ kb \in Backends
    /\ kmark \in BOOLEAN
    /\ kmark => kb \in MarkerBackends
    /\ \E used \in BOOLEAN :
          LET names == IF used THEN UsedNames(kb) ELSE {}
              cells == {UsedCell(n) : n \in names}
              value == [n \in KNames |->
                          IF n \in names THEN Obj(UsedBytes(UsedCell(n))) ELSE NoObj]
          IN /\ kstore = [n \in KNames |-> IF n \in names THEN UsedCell(n) ELSE 0]
             /\ kmarker = IF used /\ kmark THEN PriorMarker ELSE 0
             /\ kheap = [c \in KCells |-> IF c = CallerBuf THEN <<1>>
                                          ELSE IF c \in cells THEN UsedBytes(c)
                                          ELSE <<>>]
             /\ klast = value
             /\ keff = value
    /\ kcache = [lastMarker |-> 0, lastList |-> <<>>]
    /\ knext = 4
    /\ kgot = 0
    /\ kres = KNone
    /\ kops = 0
    /\ CacheAtRest
    /\ FsAtRest
    /\ StreamAtRest
    /\ NameAtRest
    /\ RegAtRest
    /\ PrefixAtRest
    /\ LockAtRest
    /\ PatchAtRest
    /\ AsFSAtRest

\* The marker and the cache fields after a call with outcome o.
Marked(o) ==
    /\ kmarker' = IF o.marked THEN kops + 1 ELSE kmarker
    /\ kcache' = IF o.marked THEN [lastMarker |-> kops + 1, lastList |-> <<>>]
                 ELSE kcache

\* Interface.Store(ctx, name, data) with data the caller's slice.
KvStore(name) ==
    /\ kops < KMaxOps
    /\ \E o \in (CASE kb = "memory" -> memoryStore(name)
                   [] kb = "fs"     -> fsStore(name)
                   [] kb = "s3"     -> s3Store(name)
                   [] kb = "azure"  -> azureStore(name)) :
          /\ kstore' = IF o.eff THEN Stored(kstore, name, dataCopy(CallerBuf, knext))
                       ELSE kstore
          /\ kheap' = IF o.eff THEN [kheap EXCEPT ![knext] = kheap[CallerBuf]] ELSE kheap
          /\ knext' = IF o.eff THEN knext + 1 ELSE knext
          /\ Marked(o)
          /\ keff' = IF o.eff THEN [keff EXCEPT ![name] = Obj(kheap[CallerBuf])] ELSE keff
          /\ klast' = IF o.err = "ok" THEN [klast EXCEPT ![name] = Obj(kheap[CallerBuf])]
                      ELSE klast
          /\ kres' = [KNone EXCEPT !.op = "store", !.name = name, !.err = o.err,
                                   !.touched = o.touched, !.was = kstore[name] # 0]
    /\ kops' = kops + 1
    /\ UNCHANGED <<kb, kmark, kgot>>

\* Interface.Delete(ctx, name)
KvDelete(name) ==
    /\ kops < KMaxOps
    /\ \E o \in (CASE kb = "memory" -> memoryDelete(name)
                   [] kb = "fs"     -> fsDelete(name)
                   [] kb = "s3"     -> s3Delete(name)
                   [] kb = "azure"  -> azureDelete(name)) :
          /\ kstore' = IF o.eff THEN [kstore EXCEPT ![name] = 0] ELSE kstore
          /\ Marked(o)
          /\ keff' = IF o.eff THEN [keff EXCEPT ![name] = NoObj] ELSE keff
          /\ klast' = IF o.err = "ok" THEN [klast EXCEPT ![name] = NoObj] ELSE klast
          /\ kres' = [KNone EXCEPT !.op = "delete", !.name = name, !.err = o.err,
                                   !.touched = o.touched, !.was = kstore[name] # 0]
    /\ kops' = kops + 1
    /\ UNCHANGED <<kb, kmark, kheap, knext, kgot>>

\* The bytes of name read out of the backend by Load or through a reader.
Fetch(op, name) ==
    /\ kops < KMaxOps
    /\ \E o \in LoadOutcomes(prependGlobalPrefix(name), kstore[name] # 0) :
          /\ kgot' = IF o.eff THEN dataCopy(kstore[name], knext) ELSE 0
          /\ kheap' = IF o.eff THEN [kheap EXCEPT ![knext] = kheap[kstore[name]]] ELSE kheap
          /\ knext' = IF o.eff THEN knext + 1 ELSE knext
          /\ kres' = [KNone EXCEPT !.op = op, !.name = name, !.err = o.err,
                                   !.touched = o.touched, !.was = kstore[name] # 0,
                                   !.got = o.eff, !.held = kgot]
    /\ kops' = kops + 1
    /\ UNCHANGED <<kb, kmark, kstore, kmarker, kcache, klast, keff>>

\* Interface.Load(ctx, name)
KvLoad(name) == Fetch("load", name)

\* simpleblob.NewReader(ctx, st, name) and reading the reader to its end.
KvNewReader(name) == Fetch("newreader", name)

\* simpleblob.NewWriter(ctx, st, name): the writer is built, nothing is
\* checked and nothing is written yet.
KvNewWriter(name) ==
    /\ kops < KMaxOps
    /\ kres' = [KNone EXCEPT !.op = "newwriter", !.name = name, !.err = "ok",
                             !.was = kstore[name] # 0]
    /\ kops' = kops + 1
    /\ UNCHANGED <<kb, kmark, kstore, kmarker, kcache, kheap, knext, kgot, klast, keff>>

\* Interface.List(ctx, prefix)
KvList(prefix) ==
    /\ kops < KMaxOps
    /\ \E stale \in BOOLEAN :
       \E r \in (CASE kb = "memory" -> {<<"ok", memoryList(prefix), kcache, "none", "direct">>}
                   [] kb = "fs"     -> {<<"ok", fsList(prefix), kcache, "none", "direct">>,
                                        <<ErrTransport, <<>>, kcache, "none", "direct">>}
                   [] OTHER         -> markerList(prefix, stale)) :
          /\ kres' = [KNone EXCEPT !.op = "list", !.name = prefix, !.err = r[1],
                                   !.list = r[2], !.touched = TRUE, !.merr = r[4],
                                   !.was = kmarker # 0, !.why = r[5]]
          /\ kcache' = r[3]
    /\ kops' = kops + 1
    /\ UNCHANGED <<kb, kmark, kstore, kmarker, kheap, knext, kgot, klast, keff>>

\* The caller writes into a slice it holds: the one it passed to Store or
\* the one Load returned.
KvMutate(cell) ==
    /\ cell # 0
    /\ \E bytes \in ({Scribble(kheap[cell])} \cup
                     (IF cell = CallerBuf THEN Payloads ELSE {})) \ {kheap[cell]} :
          kheap' = [kheap EXCEPT ![cell] = bytes]
    /\ UNCHANGED <<kb, kmark, kstore, kmarker, kcache, knext, kgot, kres, klast, keff, kops>>

KvNext ==
    \/ \E n \in KNames : KvStore(n)
    \/ \E n \in KNames : KvDelete(n)
    \/ \E n \in KNames : KvLoad(n)
    \/ \E n \in KNames : KvNewReader(n)
    \/ \E n \in KNames : KvNewWriter(n)
    \/ \E prefix \in KPrefixes : KvList(prefix)
    \/ \E cell \in {CallerBuf, kgot} : KvMutate(cell)

C28_RefreshNeverGoesBack ==
    [][\A p \in Procs :
          (/\ th[p].pc = "list_swap" /\ th'[p].pc = "ret"
           /\ lastList[Inst(p)] # <<>>) =>
             LET old == lastMarker[Inst(p)]
                 new == lastMarker'[Inst(p)]
             IN \/ old = EmptyMarker
                \/ new # EmptyMarker /\ new.nanos >= old.nanos]_vars

\* C29: with caching enabled, when a Store or Delete that ran with no other
\* call in flight has returned successfully, the marker object in the bucket
\* holds exactly the instance's lastMarker and the instance has no cached list.
C29_MarkerMatchesAfterMutation ==
    useMarker =>
        \A p \in Procs :
            (/\ th[p].pc = "ret"
             /\ th[p].op \in {"store", "delete"}
             /\ th[p].res = "ok"
             /\ th[p].solo)
            => /\ bucket[UpdateMarkerFilename] = Obj(lastMarker[Inst(p)])
               /\ lastList[Inst(p)] = <<>>

\* C29 witness: a Delete that ran alone has returned successfully on an
\* instance whose cache held a list when setMarker took the lock.
C29_Witness ==
    /\ useMarker
    /\ \E p \in Procs :
          /\ th[p].pc = "ret" /\ th[p].op = "delete" /\ th[p].res = "ok"
          /\ th[p].solo /\ th[p].warm
          /\ lastMarker[Inst(p)] # EmptyMarker

NotFoundErrors == {ErrNotExist, ErrBlobNotFound}

\* C12: with caching enabled, a marker read that fails for a reason other
\* than not-found makes List return that error and no blobs, and a marker
\* that is not found never makes List fail: List then returns nil or the
\* error of the enumeration it went on to do, never the not-found error.
C12_MarkerReadFailure ==
    (kmark /\ kres.op = "list") =>
        /\ kres.merr = ErrTransport => (kres.err = ErrTransport /\ kres.list = <<>>)
        /\ kres.merr \in NotFoundErrors => kres.err \notin NotFoundErrors

\* C14: no List that returns nil has an entry named update-marker.
C14_MarkerNeverListed ==
    (kres.op = "list" /\ kres.err = "ok") =>
        \A i \in 1..Len(kres.list) : kres.list[i].Name # UpdateMarkerFilename

\* C16: Delete of a name that does not exist returns nil unless the
\* transport failed, and after a Delete that returned nil the name is gone.
C16_DeleteIdempotent ==
    kres.op = "delete" =>
        /\ ~kres.was => kres.err \in {"ok", ErrTransport}
        /\ kres.err = "ok" => kstore[kres.name] = 0

\* C17: Load and NewReader of an absent name return os.ErrNotExist, or the
\* transport's error when the request itself failed.
C17_AbsentIsErrNotExist ==
    (kres.op \in {"load", "newreader"} /\ ~kres.was) =>
        kres.err \in {ErrNotExist, ErrTransport}

\* C18: a call with a name CheckName rejects returns an error and has not
\* read or written the backing store.
C18_InvalidNameFailsFirst ==
    (kres.op \in {"store", "load", "delete", "newreader", "newwriter"}
        /\ CheckName(kres.name) # "ok") =>
        /\ kres.err # "ok"
        /\ ~kres.touched

\* C19: a Load of a valid name returns data exactly when some Store of the
\* name returned nil with no Delete returning nil after it, and the data is
\* that of the last such Store.
C19_LoadReturnsLastStore ==
    [][(kops' = kops + 1 /\ kres'.op = "load" /\ CheckName(kres'.name) = "ok"
            /\ kres'.err # ErrTransport) =>
          /\ kres'.got <=> klast[kres'.name] # NoObj
          /\ kres'.got => Obj(kheap'[kgot']) = klast[kres'.name]]_vars

\* C20: whatever the caller writes into the slice it passed to Store or into
\* a slice Load returned, every stored value stays the bytes that were
\* stored, and every Load returns those bytes.
C20_CopyIsolation ==
    /\ [](\A n \in KNames : kstore[n] # 0 => Obj(kheap[kstore[n]]) = keff[n])
    /\ [][(kops' = kops + 1 /\ kres'.op \in {"load", "newreader"} /\ kres'.got) =>
             Obj(kheap'[kgot']) = keff[kres'.name]]_vars

\* A second Load returned the stored bytes after the caller had overwritten
\* both the slice it stored from and the slice the first Load returned.
C20_Witness ==
    /\ kres.op = "load" /\ kres.got /\ kres.err = "ok"
    /\ Obj(kheap[kgot]) = keff[kres.name]
    /\ Obj(kheap[CallerBuf]) # keff[kres.name]
    /\ kres.held \notin {0, kgot}
    /\ Obj(Scribble(kheap[kres.held])) = keff[kres.name]

C22_ListIsPrefixFilter ==
    (kres.op = "list" /\ kres.err = "ok") =>
        /\ {kres.list[i] : i \in 1..Len(kres.list)} =
              {Entry(n, Len(kheap[kstore[n]])) : n \in {m \in Present : HasPrefix(m, kres.name)}}
        /\ Len(kres.list) = Cardinality({m \in Present : HasPrefix(m, kres.name)})

\* C27: once a Store or Delete has changed a blob and returned the error of
\* its marker write, a List answered from the cache still returns what an
\* enumeration of the store would return.
C27_FailedMarkerWriteNotHidden ==
    (/\ kmark
     /\ klast # keff
     /\ kres.op = "list" /\ kres.err = "ok" /\ kres.why = "cached")
    => kres.list = WithPrefix(kdoList(GlobalPrefix), kres.name)

\* C32: on S3 with caching enabled, once a List has enumerated successfully
\* and the marker is in the bucket, the cache is populated: a following List
\* within the force-refresh interval does not enumerate again, whatever the
\* enumeration found.
C32_PopulatedAfterEnumeration ==
    (/\ kb = "s3" /\ kmark
     /\ kres.op = "list" /\ kres.why = "refresh" /\ kres.err = "ok"
     /\ kmarker # 0)
    => \A prefix \in KPrefixes : \A r \in markerList(prefix, FALSE) : r[5] # "refresh"

\* ------------------------------------------------------------------------
\* The name check
\* ------------------------------------------------------------------------
\* Longest name tried exhaustively.
MaxNameLen == 5

\* The characters the check looks for, a space and a plain letter.
NameChars == {"/", Nul, ".", "t", "m", "p", " ", "x"}

\* "not-really-temporary.tmp " of the tests, shortened.
SpaceAfterTmp == <<"x", ".", "t", "m", "p", " ">>

NameInputs ==
    UNION {[1..k -> NameChars] : k \in 0..MaxNameLen} \cup {SpaceAfterTmp}

\* simpleblob.AllowedName
AllowedName(s) == CheckName(s) = "ok"

NameInit ==
    /\ nname \in NameInputs
    /\ nerr = "none"
    /\ nallowed = <<>>
    /\ CacheAtRest
    /\ FsAtRest
    /\ StreamAtRest
    /\ KvAtRest
    /\ RegAtRest
    /\ PrefixAtRest
    /\ LockAtRest
    /\ PatchAtRest
    /\ AsFSAtRest

\* err := simpleblob.CheckName(name)
NameCheck ==
    /\ nerr = "none"
    /\ nerr' = CheckName(nname)
    /\ UNCHANGED <<nname, nallowed>>

\* ok := simpleblob.AllowedName(name)
NameAllowed ==
    /\ nallowed = <<>>
    /\ nallowed' = <<AllowedName(nname)>>
    /\ UNCHANGED <<nname, nerr>>

NameNext == NameCheck \/ NameAllowed

\* C23: CheckName returns an error exactly for the empty name, a name that
\* contains a slash or a NUL byte, a name that starts with a dot and a name
\* that ends in .tmp; AllowedName is true exactly for the other names.
C23_CheckNameExact ==
    LET n == Len(nname)
        rejected == \/ n = 0
                    \/ \E i \in 1..n : nname[i] = "/" \/ nname[i] = Nul
                    \/ n >= 1 /\ nname[1] = "."
                    \/ n >= 4 /\ <<nname[n - 3], nname[n - 2], nname[n - 1], nname[n]>>
                                    = <<".", "t", "m", "p">>
    IN /\ nerr # "none" => (nerr # "ok" <=> rejected)
       /\ nallowed # <<>> => (nallowed[1] <=> ~rejected)

\* Both functions were asked about "x.tmp " and accepted it.
C23_Witness ==
    /\ nname = SpaceAfterTmp
    /\ nerr = "ok"
    /\ nallowed = <<TRUE>>

\* ------------------------------------------------------------------------
\* The backend registry
\* ------------------------------------------------------------------------
\* Number of RegisterBackend and GetBackend calls in one run.
MaxRegOps == 3

\* The type names used: the empty string and two backend types.
TypeNames == {"", "memory", "fs"}
\* Two constructors (non-nil InitFunc values).
InitFuncs == {1, 2}
\* What a constructor may return: a backend, or its own error.
InitResults == {"ok", "ErrInit"}

ErrNoType == "no storage.type configured"
ErrNotRegistered == "storage.type not found or registered"

\* The last GetBackend: its argument, its error, the constructor it called
\* with what that returned, and how many registrations preceded the call.
RegNone == [typeName |-> "", err |-> "none", called |-> 0, out |-> "none", at |-> 0]

\* backends[typeName] = initFunc
RegisteredFirstWins(reg, typeName, initFunc) ==
    IF reg[typeName] = 0 THEN [reg EXCEPT ![typeName] = initFunc] ELSE reg

Registered(reg, typeName, initFunc) == [reg EXCEPT ![typeName] = initFunc]

RegInit ==
    /\ backends = [t \in TypeNames |-> 0]
    /\ regHist = <<>>
    /\ regRes = RegNone
    /\ regOps = 0
    /\ CacheAtRest
    /\ FsAtRest
    /\ StreamAtRest
    /\ KvAtRest
    /\ NameAtRest
    /\ PrefixAtRest
    /\ LockAtRest
    /\ PatchAtRest
    /\ AsFSAtRest

\* RegisterBackend(typeName, initFunc)
RegisterBackend(typeName, initFunc) ==
    /\ regOps < MaxRegOps
    /\ backends' = Registered(backends, typeName, initFunc)
    /\ regHist' = Append(regHist, <<typeName, initFunc>>)
    /\ regOps' = regOps + 1
    /\ UNCHANGED regRes

\* GetBackendWithParams(ctx, typeName, params), also reached through
\* GetBackend.
GetBackendWithParams(typeName) ==
    /\ regOps < MaxRegOps
    /\ regOps' = regOps + 1
    /\ IF typeName = ""
       THEN regRes' = [RegNone EXCEPT !.typeName = typeName, !.err = ErrNoType,
                                      !.at = Len(regHist)]
       ELSE LET initFunc == backends[typeName]
                exists == initFunc # 0
            IN IF ~exists
               THEN regRes' = [RegNone EXCEPT !.typeName = typeName,
                                              !.err = ErrNotRegistered,
                                              !.at = Len(regHist)]
               ELSE \E out \in InitResults :
                       regRes' = [typeName |-> typeName, err |-> out,
                                  called |-> initFunc, out |-> out,
                                  at |-> Len(regHist)]
    /\ UNCHANGED <<backends, regHist>>

RegNext ==
    \/ \E t \in TypeNames, f \in InitFuncs : RegisterBackend(t, f)
    \/ \E t \in TypeNames : GetBackendWithParams(t)

\* C25: GetBackend returns an error and calls no constructor when typeName is
\* empty or no registration of it was made before the call; otherwise it calls the
\* constructor of the last registration made under typeName and returns
\* what that constructor returned.
C25_GetBackendUsesLastRegistration ==
    regRes.err # "none" =>
        LET made == {i \in 1..regRes.at : regHist[i][1] = regRes.typeName}
        IN IF regRes.typeName = "" \/ made = {}
           THEN regRes.err \in {ErrNoType, ErrNotRegistered} /\ regRes.called = 0
           ELSE /\ regRes.called = regHist[CHOOSE i \in made : \A j \in made : j <= i][2]
                /\ regRes.err = regRes.out

\* GetBackend called the second of two constructors registered under one
\* type name.
C25_Witness ==
    /\ regRes.called = 2
    /\ \E i, j \in 1..regRes.at :
          /\ i < j
          /\ regHist[i] = <<regRes.typeName, 1>>
          /\ regHist[j] = <<regRes.typeName, 2>>

\* ------------------------------------------------------------------------
\* The S3 backend under a configured global prefix (s3.go, marker.go)
\* ------------------------------------------------------------------------
MaxPrefixOps == 3

\* Values of Options.GlobalPrefix.
GlobalPrefixes == {<<>>, <<"p", "/">>}

PNames == {<<"a">>}

PListPrefixes == {<<>>, <<"a">>}

\* The object keys of the bucket.
PKeys == {g \o n : g \in GlobalPrefixes, n \in PNames \cup {UpdateMarkerFilename}}

PNone == [op |-> "none", err |-> "ok", list |-> <<>>, why |-> "none"]

\* Backend.prependGlobalPrefix
withGlobalPrefix(name) == pgp \o name

\* setMarker: b.doStore(ctx, UpdateMarkerFilename, p); doStore takes the key
\* as it is.
setMarkerKey == UpdateMarkerFilename

\* List: b.Load(ctx, UpdateMarkerFilename); Load prepends the global prefix.
listMarkerKey == withGlobalPrefix(UpdateMarkerFilename)

\* doList(GlobalPrefix): the keys under the global prefix except
\* b.markerName, the prefix stripped, sorted.
prefixDoList ==
    LET keys == {k \in PKeys : pobj[k] # 0 /\ HasPrefix(k, pgp) /\ k # pmarkerName}
    IN SortNames({SubSeq(k, Len(pgp) + 1, Len(k)) : k \in keys})

PrefixInit ==
    /\ pgp \in GlobalPrefixes
    /\ pmarkerName = pgp \o UpdateMarkerFilename
    /\ pobj = [k \in PKeys |-> 0]
    /\ pcache = [lastMarker |-> 0, lastList |-> <<>>]
    /\ pwrote = <<>>
    /\ pread = <<>>
    /\ pskip = <<>>
    /\ pres = PNone
    /\ pops = 0
    /\ CacheAtRest
    /\ FsAtRest
    /\ StreamAtRest
    /\ KvAtRest
    /\ NameAtRest
    /\ RegAtRest
    /\ LockAtRest
    /\ PatchAtRest
    /\ AsFSAtRest

\* Backend.setGlobalPrefix
PrefixSetGlobalPrefix(g) ==
    /\ pops < MaxPrefixOps
    /\ pgp' = g
    /\ pmarkerName' = g \o UpdateMarkerFilename
    /\ pwrote' = <<>> /\ pread' = <<>> /\ pskip' = <<>>
    /\ pres' = [PNone EXCEPT !.op = "setGlobalPrefix"]
    /\ pops' = pops + 1
    /\ UNCHANGED <<pobj, pcache>>

\* Store and Delete: the blob under the prefixed name, then setMarker.
\* put is the version Store leaves under the name, 0 for Delete.
PrefixMutate(op, name, put) ==
    /\ pops < MaxPrefixOps
    /\ pops' = pops + 1
    /\ \/ /\ pres' = [PNone EXCEPT !.op = op, !.err = ErrTransport]
          /\ UNCHANGED <<pobj, pcache, pwrote>>
       \/ /\ pobj' = [pobj EXCEPT ![withGlobalPrefix(name)] = put]
          /\ pres' = [PNone EXCEPT !.op = op, !.err = ErrTransport]
          /\ UNCHANGED <<pcache, pwrote>>
       \/ /\ pobj' = [pobj EXCEPT ![withGlobalPrefix(name)] = put,
                                  ![setMarkerKey] = pops + 1]
          /\ pcache' = [lastMarker |-> pops + 1, lastList |-> <<>>]
          /\ pwrote' = <<setMarkerKey>>
          /\ pres' = [PNone EXCEPT !.op = op]
    /\ UNCHANGED <<pgp, pmarkerName, pread, pskip>>

PrefixStore(name) == PrefixMutate("store", name, pops + 1)

PrefixDelete(name) == PrefixMutate("delete", name, 0)

\* Backend.List with UseUpdateMarker; stale is
\* time.Since(b.lastTime) >= UpdateMarkerForceListInterval.
PrefixList(prefix, stale) ==
    /\ pops < MaxPrefixOps
    /\ pops' = pops + 1
    /\ pread' = <<listMarkerKey>>
    /\ LET exists == pobj[listMarkerKey] # 0
           upstreamMarker == pobj[listMarkerKey]
           mustUpdate == \/ pcache.lastList = <<>>
                         \/ upstreamMarker # pcache.lastMarker
                         \/ stale
                         \/ ~exists
           blobs == prefixDoList
           names(l) == SelectSeq(l, LAMBDA n : HasPrefix(n, prefix))
       IN \/ /\ pres' = [PNone EXCEPT !.op = "list", !.err = ErrTransport, !.why = "marker"]
             /\ UNCHANGED <<pcache, pskip>>
          \/ /\ ~mustUpdate
             /\ pres' = [PNone EXCEPT !.op = "list", !.why = "cached",
                                      !.list = names(pcache.lastList)]
             /\ UNCHANGED <<pcache, pskip>>
          \/ /\ mustUpdate
             /\ pskip' = <<pmarkerName>>
             /\ \/ /\ pres' = [PNone EXCEPT !.op = "list", !.err = ErrTransport,
                                            !.why = "refresh"]
                   /\ UNCHANGED pcache
                \/ /\ pcache' = [lastMarker |-> upstreamMarker, lastList |-> blobs]
                   /\ pres' = [PNone EXCEPT !.op = "list", !.why = "refresh",
                                            !.list = names(blobs)]
    /\ UNCHANGED <<pgp, pmarkerName, pobj, pwrote>>

PrefixNext ==
    \/ \E g \in GlobalPrefixes : PrefixSetGlobalPrefix(g)
    \/ \E n \in PNames : PrefixStore(n)
    \/ \E n \in PNames : PrefixDelete(n)
    \/ \E prefix \in PListPrefixes, stale \in BOOLEAN : PrefixList(prefix, stale)

\* C31: under every global prefix, the key setMarker writes the marker to,
\* the key List reads the marker from and the key the enumeration leaves out
\* are one and the same key.
C31_OneMarkerKey ==
    /\ (pwrote # <<>> /\ pread # <<>>) => pwrote = pread
    /\ (pwrote # <<>> /\ pskip # <<>>) => pwrote = pskip
    /\ (pread # <<>> /\ pskip # <<>>) => pread = pskip

\* ------------------------------------------------------------------------
\* The cache lock of an S3 backend instance (s3.go List, marker.go setMarker)
\* ------------------------------------------------------------------------
MaxLockCalls == 4

\* The goroutines sharing the instance.
Callers == {1, 2}

LIdle == [op |-> "none", pc |-> "idle", mustUpdate |-> FALSE]

\* Positions at which a call waits for the backing store.
BackendCalls == {"load_marker", "doList", "doStore", "doDelete", "store_marker"}

\* Positions between b.mu.Lock() and b.mu.Unlock().
CriticalSections == {"check", "swap", "set"}

LockInit ==
    /\ mu = 0
    /\ lth = [p \in Callers |-> LIdle]
    /\ lcached = FALSE
    /\ lcalls = 0
    /\ CacheAtRest
    /\ FsAtRest
    /\ StreamAtRest
    /\ KvAtRest
    /\ NameAtRest
    /\ RegAtRest
    /\ PrefixAtRest
    /\ PatchAtRest
    /\ AsFSAtRest

\* A caller enters List, Store or Delete (UseUpdateMarker is true) and is in
\* its first call to the backing store.
LockCall(p, op) ==
    /\ lth[p].pc = "idle"
    /\ lcalls < MaxLockCalls
    /\ lcalls' = lcalls + 1
    /\ lth' = [lth EXCEPT ![p] = [LIdle EXCEPT !.op = op,
                                               !.pc = CASE op = "list" -> "load_marker"
                                                        [] op = "store" -> "doStore"
                                                        [] op = "delete" -> "doDelete"]]
    /\ UNCHANGED <<mu, lcached>>

\* The call to the backing store returns an error, and so does the caller's.
LockBackendFails(p) ==
    /\ lth[p].pc \in BackendCalls
    /\ lth' = [lth EXCEPT ![p].pc = "ret"]
    /\ UNCHANGED <<mu, lcached, lcalls>>

\* The call to the backing store returns; the next statement is another
\* backend call or b.mu.Lock().
LockBackendReturns(p) ==
    /\ lth[p].pc \in BackendCalls
    /\ lth' = [lth EXCEPT ![p].pc = CASE lth[p].pc = "load_marker" -> "lock_check"
                                      [] lth[p].pc = "doList" -> "lock_swap"
                                      [] lth[p].pc \in {"doStore", "doDelete"} -> "store_marker"
                                      [] lth[p].pc = "store_marker" -> "lock_set"]
    /\ UNCHANGED <<mu, lcached, lcalls>>

\* b.mu.Lock() returns once no goroutine holds the lock.
LockAcquire(p) ==
    /\ lth[p].pc \in {"lock_check", "lock_swap", "lock_set"}
    /\ mu = 0
    /\ mu' = p
    /\ lth' = [lth EXCEPT ![p].pc = CASE lth[p].pc = "lock_check" -> "check"
                                      [] lth[p].pc = "lock_swap" -> "swap"
                                      [] lth[p].pc = "lock_set" -> "set"]
    /\ UNCHANGED <<lcached, lcalls>>

AfterCheckStillLocked(p) == p

\* List: b.mu.Unlock() after mustUpdate and blobs were read.
AfterCheck(p) == 0

\* List's first critical section: mustUpdate is true for a nil lastList and
\* may be true for a changed marker or an old cache.
LockCheck(p) ==
    /\ lth[p].pc = "check"
    /\ mu = p
    /\ \E mustUpdate \in BOOLEAN :
          /\ ~lcached => mustUpdate
          /\ lth' = [lth EXCEPT ![p].pc = IF mustUpdate THEN "doList" ELSE "ret",
                                ![p].mustUpdate = mustUpdate]
    /\ mu' = AfterCheck(p)
    /\ UNCHANGED <<lcached, lcalls>>

\* List's second critical section: the swap; found tells whether the
\* enumeration returned any blob.
LockSwap(p) ==
    /\ lth[p].pc = "swap"
    /\ mu = p
    /\ \E found \in BOOLEAN : lcached' = found
    /\ mu' = 0
    /\ lth' = [lth EXCEPT ![p].pc = "ret"]
    /\ UNCHANGED lcalls

\* setMarker's critical section, left by the deferred Unlock.
LockSet(p) ==
    /\ lth[p].pc = "set"
    /\ mu = p
    /\ lcached' = FALSE
    /\ mu' = 0
    /\ lth' = [lth EXCEPT ![p].pc = "ret"]
    /\ UNCHANGED lcalls

\* The caller takes the result.
LockReturn(p) ==
    /\ lth[p].pc = "ret"
    /\ lth' = [lth EXCEPT ![p] = LIdle]
    /\ UNCHANGED <<mu, lcached, lcalls>>

LockNext ==
    \/ \E p \in Callers, op \in {"list", "store", "delete"} : LockCall(p, op)
    \/ \E p \in Callers : LockBackendFails(p)
    \/ \E p \in Callers : LockBackendReturns(p)
    \/ \E p \in Callers : LockAcquire(p)
    \/ \E p \in Callers : LockCheck(p)
    \/ \E p \in Callers : LockSwap(p)
    \/ \E p \in Callers : LockSet(p)
    \/ \E p \in Callers : LockReturn(p)

MaxPatchOps == 3

QNames == {<<"a">>, <<"b">>, <<"c">>}

QSizes == {1, 2}

QNone == [op |-> "none", name |-> <<>>, err |-> "ok", list |-> <<>>, why |-> "none"]

RECURSIVE sortSearchLoop(_, _, _)
\* The loop of sort.Search over f(0..n-1), given as the sequence pred.
sortSearchLoop(pred, i, j) ==
    IF i < j
    THEN LET h == (i + j) \div 2
         IN IF ~pred[h + 1] THEN sortSearchLoop(pred, h + 1, j)
                            ELSE sortSearchLoop(pred, i, h)
    ELSE i

\* sort.Search(n, f): the index (from 0) the binary search ends on.
sortSearch(pred) == sortSearchLoop(pred, 0, Len(pred))

\* Store's goroutine: update the size, insert at the found place or append.
storePatch(list, name, size) ==
    LET l == Len(list)
        idx == sortSearch([i \in 1..l |-> ~StrLess(list[i].Name, name)])
        blob == Entry(name, size)
    IN IF idx < l
       THEN IF list[idx + 1].Name = name
            THEN [list EXCEPT ![idx + 1].Size = size]
            ELSE SubSeq(list, 1, idx) \o <<blob>> \o SubSeq(list, idx + 1, l)
       ELSE Append(list, blob)

\* Delete's goroutine: sort.Search with the predicate Name == name, then
\* b.lastList[:idx] and, for idx < l-2, the append of b.lastList[idx+1:],
\* a slice expression whose low bound exceeds the new length.
deletePatch(list, name) ==
    LET l == Len(list)
        idx == sortSearch([i \in 1..l |-> list[i].Name = name])
    IN IF idx < l /\ list[idx + 1].Name = name
       THEN [panics |-> idx < l - 2, list |-> SubSeq(list, 1, idx)]
       ELSE [panics |-> FALSE, list |-> list]

\* doList(ctx, ""): every object but the marker, sorted by name.
patchDoList ==
    LET names == SortNames({n \in QNames : qobj[n] # 0})
    IN [i \in 1..Len(names) |-> Entry(names[i], qobj[names[i]])]

PatchInit ==
    /\ qobj \in [QNames -> {0, 1}]
    /\ qmark \in {<<>>} \cup {<<n>> : n \in {m \in QNames : qobj[m] # 0}}
    /\ qlist = <<>>
    /\ qlastMarker = <<>>
    /\ qfilled = FALSE
    /\ qres = QNone
    /\ qops = 0
    /\ CacheAtRest
    /\ FsAtRest
    /\ StreamAtRest
    /\ KvAtRest
    /\ NameAtRest
    /\ RegAtRest
    /\ PrefixAtRest
    /\ LockAtRest
    /\ AsFSAtRest

\* Store: doStore of the blob, then under the lock the goroutine that
\* patches the cache while the marker is stored.  When the marker's doStore
\* fails Store returns without wg.Wait(): the patch may or may not have been
\* made when the caller goes on.
PatchStore(name, size) ==
    /\ qops < MaxPatchOps
    /\ qres.err # Panic
    /\ qops' = qops + 1
    /\ \/ /\ qres' = [QNone EXCEPT !.op = "store", !.name = name, !.err = ErrTransport]
          /\ UNCHANGED <<qobj, qmark, qlist, qlastMarker>>
       \/ /\ qobj' = [qobj EXCEPT ![name] = size]
          /\ qmark' = <<name>>
          /\ qlist' = storePatch(qlist, name, size)
          /\ qlastMarker' = name
          /\ qres' = [QNone EXCEPT !.op = "store", !.name = name]
       \/ /\ qobj' = [qobj EXCEPT ![name] = size]
          /\ qres' = [QNone EXCEPT !.op = "store", !.name = name, !.err = ErrTransport]
          /\ \/ /\ qlist' = storePatch(qlist, name, size)
                /\ qlastMarker' = name
             \/ UNCHANGED <<qlist, qlastMarker>>
          /\ UNCHANGED qmark
    /\ UNCHANGED qfilled

\* Delete: RemoveObject, whose error is kept for the return; then the patch
\* and the marker as in Store.  removed tells whether RemoveObject worked.
PatchDelete(name, removed) ==
    /\ qops < MaxPatchOps
    /\ qres.err # Panic
    /\ qops' = qops + 1
    /\ qobj' = IF removed THEN [qobj EXCEPT ![name] = 0] ELSE qobj
    /\ LET patched == deletePatch(qlist, name)
           err == IF removed THEN "ok" ELSE ErrTransport
       IN IF patched.panics
          THEN /\ qres' = [QNone EXCEPT !.op = "delete", !.name = name, !.err = Panic]
               /\ UNCHANGED <<qmark, qlist, qlastMarker>>
          ELSE \/ /\ qmark' = <<name>>
                  /\ qlist' = patched.list
                  /\ qlastMarker' = name
                  /\ qres' = [QNone EXCEPT !.op = "delete", !.name = name, !.err = err]
               \/ /\ qres' = [QNone EXCEPT !.op = "delete", !.name = name,
                                           !.err = ErrTransport]
                  /\ \/ /\ qlist' = patched.list
                        /\ qlastMarker' = name
                     \/ UNCHANGED <<qlist, qlastMarker>>
                  /\ UNCHANGED qmark
    /\ UNCHANGED qfilled

\* List under the lock: the marker read, the refresh when the marker is
\* absent, lastMarker is empty, the marker differs or the cache is old
\* (stale), and the cached list filtered by prefix.
PatchList(prefix, stale) ==
    /\ qops < MaxPatchOps
    /\ qres.err # Panic
    /\ qops' = qops + 1
    /\ LET exists == qmark # <<>>
           current == IF exists THEN qmark[1] ELSE <<>>
           refresh == \/ ~exists
                      \/ qlastMarker = <<>>
                      \/ current # qlastMarker
                      \/ stale
       IN \/ /\ qres' = [QNone EXCEPT !.op = "list", !.name = prefix, !.err = ErrTransport]
             /\ UNCHANGED <<qlist, qlastMarker, qfilled>>
          \/ /\ refresh
             /\ qlastMarker' = current
             /\ qlist' = patchDoList
             /\ qfilled' = TRUE
             /\ qres' = [QNone EXCEPT !.op = "list", !.name = prefix, !.why = "refresh",
                                      !.list = WithPrefix(patchDoList, prefix)]
          \/ /\ ~refresh
             /\ qres' = [QNone EXCEPT !.op = "list", !.name = prefix, !.why = "cached",
                                      !.list = WithPrefix(qlist, prefix)]
             /\ UNCHANGED <<qlist, qlastMarker, qfilled>>
    /\ UNCHANGED <<qobj, qmark>>

PatchNext ==
    \/ \E n \in QNames, size \in QSizes : PatchStore(n, size)
    \/ \E n \in QNames, removed \in BOOLEAN : PatchDelete(n, removed)
    \/ \E prefix \in {<<>>, <<"b">>}, stale \in BOOLEAN : PatchList(prefix, stale)

\* C39: in the backend whose Store and Delete patch the cached list, once a
\* List has filled the cache, the cached list after every Store and Delete,
\* whatever it returned, is the sorted listing of the bucket at that moment.
C39_PatchedListIsListing ==
    (qfilled /\ qres.op \in {"store", "delete"} /\ qres.err # Panic)
        => qlist = patchDoList

\* ------------------------------------------------------------------------
\* AsFS: a file opened through fsInterfaceWrapper and read with Read (fs.go)
\* ------------------------------------------------------------------------

MaxAsFSOps == 5

\* Blob contents and the buffer lengths a caller hands to Read.
AContents == {<<>>, <<1>>, <<1, 2>>}

BufLens == {0, 1, 2}

ErrEOF == "EOF"

NoBlob == [present |-> FALSE, data |-> <<>>]

\* bw.r == nil
NoReader == [loaded |-> FALSE, s |-> <<>>, i |-> 0]

NoHist == [first |-> <<>>, got |-> <<>>, loads |-> 0, eof |-> FALSE]

ANone == [op |-> "none", n |-> <<>>, err |-> "ok", afterEof |-> FALSE]

\* bytes.NewReader(b)
NewReader(b) == [loaded |-> TRUE, s |-> b, i |-> 0]

\* bytes.Reader.Read: EOF at the end, else copy up to len(p) bytes and advance.
readerRead(r, plen) ==
    IF r.i >= Len(r.s)
        THEN [n |-> <<>>, err |-> ErrEOF, r |-> r]
        ELSE LET k == Min2(plen, Len(r.s) - r.i)
             IN  [n |-> SubSeq(r.s, r.i + 1, r.i + k), err |-> "ok",
                  r |-> [r EXCEPT !.i = r.i + k]]

\* What Read leaves in bw.r after the reader returned err.
readerAfter(r, err) == IF err = ErrEOF THEN NoReader ELSE r

AsFSInit ==
    /\ ablob \in {NoBlob} \cup {[present |-> TRUE, data |-> d] : d \in AContents}
    /\ afile = [open |-> FALSE, r |-> NoReader]
    /\ ahist = NoHist
    /\ ares = ANone
    /\ aops = 0
    /\ CacheAtRest
    /\ FsAtRest
    /\ StreamAtRest
    /\ KvAtRest
    /\ NameAtRest
    /\ RegAtRest
    /\ PrefixAtRest
    /\ LockAtRest
    /\ PatchAtRest

\* Store on the wrapped Interface, beside the open file.
AsFSStore(d) ==
    /\ aops < MaxAsFSOps
    /\ ablob' = [present |-> TRUE, data |-> d]
    /\ ares' = [ANone EXCEPT !.op = "store"]
    /\ aops' = aops + 1
    /\ UNCHANGED <<afile, ahist>>

\* Delete on the wrapped Interface, beside the open file.
AsFSDelete ==
    /\ aops < MaxAsFSOps
    /\ ablob' = NoBlob
    /\ ares' = [ANone EXCEPT !.op = "delete"]
    /\ aops' = aops + 1
    /\ UNCHANGED <<afile, ahist>>

\* Open: find lists the name and wraps the blob with a nil reader.
AsFSOpen ==
    /\ aops < MaxAsFSOps
    /\ IF ablob.present
          THEN /\ afile' = [open |-> TRUE, r |-> NoReader]
               /\ ahist' = NoHist
               /\ ares' = [ANone EXCEPT !.op = "open"]
          ELSE /\ ares' = [ANone EXCEPT !.op = "open", !.err = ErrNotExist]
               /\ UNCHANGED <<afile, ahist>>
    /\ aops' = aops + 1
    /\ UNCHANGED ablob

\* fsBlobWrapper.Read: Load when there is no reader, read from the reader,
\* drop the reader when it returned EOF.
AsFSRead(plen) ==
    /\ aops < MaxAsFSOps
    /\ afile.open
    /\ IF ~afile.r.loaded /\ ~ablob.present
          THEN /\ ares' = [op |-> "read", n |-> <<>>, err |-> ErrNotExist,
                           afterEof |-> ahist.eof]
               /\ UNCHANGED <<afile, ahist>>
          ELSE LET r == IF afile.r.loaded THEN afile.r ELSE NewReader(ablob.data)
                   out == readerRead(r, plen)
                   first == IF ahist.loads = 0 THEN ablob.data ELSE ahist.first
               IN  /\ afile' = [afile EXCEPT !.r = readerAfter(out.r, out.err)]
                   /\ ares' = [op |-> "read", n |-> out.n, err |-> out.err,
                               afterEof |-> ahist.eof]
                   /\ ahist' = [first |-> first,
                                got |-> IF ahist.eof THEN ahist.got
                                                     ELSE ahist.got \o out.n,
                                loads |-> IF afile.r.loaded THEN ahist.loads
                                                            ELSE Min2(ahist.loads + 1, 2),
                                eof |-> ahist.eof \/ out.err = ErrEOF]
    /\ aops' = aops + 1
    /\ UNCHANGED ablob

\* fsBlobWrapper.Close returns nil; the caller lets the file go.
AsFSClose ==
    /\ aops < MaxAsFSOps
    /\ afile.open
    /\ afile' = [afile EXCEPT !.open = FALSE]
    /\ ares' = [ANone EXCEPT !.op = "close"]
    /\ aops' = aops + 1
    /\ UNCHANGED <<ablob, ahist>>

AsFSNext ==
    \/ \E d \in AContents : AsFSStore(d)
    \/ AsFSDelete
    \/ AsFSOpen
    \/ \E plen \in BufLens : AsFSRead(plen)
    \/ AsFSClose

\* C40: the Reads of an open file deliver exactly the bytes its Load returned
\* and then EOF, and every Read after the first EOF returns no bytes and EOF.
C40_ReadOnceThenEOF ==
    /\ (afile.open /\ ahist.eof) => ahist.got = ahist.first
    /\ (afile.open /\ ares.op = "read" /\ ares.afterEof)
           => (ares.n = <<>> /\ ares.err = ErrEOF)

\* ------------------------------------------------------------------------
\* Specifications: each runs one subsystem and leaves the others at rest
\* ------------------------------------------------------------------------
SpecCache == CacheInit /\ [][CacheNext /\ UNCHANGED <<fsVars, streamVars, kvVars, nameVars, regVars, prefixVars, lockVars, patchVars, asfsVars>>]_vars

SpecFs == FsInit /\ [][FsNext /\ UNCHANGED <<cacheVars, streamVars, kvVars, nameVars, regVars, prefixVars, lockVars, patchVars, asfsVars>>]_vars

SpecStream == StreamInit /\ [][StreamNext /\ UNCHANGED <<cacheVars, fsVars, kvVars, nameVars, regVars, prefixVars, lockVars, patchVars, asfsVars>>]_vars

SpecKV == KvInit /\ [][KvNext /\ UNCHANGED <<cacheVars, fsVars, streamVars, nameVars, regVars, prefixVars, lockVars, patchVars, asfsVars>>]_vars

SpecName == NameInit /\ [][NameNext /\ UNCHANGED <<cacheVars, fsVars, streamVars, kvVars, regVars, prefixVars, lockVars, patchVars, asfsVars>>]_vars

SpecReg == RegInit /\ [][RegNext /\ UNCHANGED <<cacheVars, fsVars, streamVars, kvVars, nameVars, prefixVars, lockVars, patchVars, asfsVars>>]_vars

SpecPrefix == PrefixInit /\ [][PrefixNext /\ UNCHANGED <<cacheVars, fsVars, streamVars, kvVars, nameVars, regVars, lockVars, patchVars, asfsVars>>]_vars

SpecLock == LockInit /\ [][LockNext /\ UNCHANGED <<cacheVars, fsVars, streamVars, kvVars, nameVars, regVars, prefixVars, patchVars, asfsVars>>]_vars

SpecPatch == PatchInit /\ [][PatchNext /\ UNCHANGED <<cacheVars, fsVars, streamVars, kvVars, nameVars, regVars, prefixVars, lockVars, asfsVars>>]_vars

SpecAsFS == AsFSInit /\ [][AsFSNext /\ UNCHANGED <<cacheVars, fsVars, streamVars, kvVars, nameVars, regVars, prefixVars, lockVars, patchVars>>]_vars

====
